---- MODULE Spec2Model ----
(***************************************************************************)
(* Model of the versatiles container reader (point lookup, tile-index      *)
(* cache, bounding-box streaming with I/O coalescing), of the compression *)
(* negotiator and of the vector-tile property-rewrite operation.           *)
(*                                                                         *)
(* A Blob read from the container is represented by the file region it     *)
(* holds, [from, len]: the bytes of the file at from .. from+len-1.        *)
(* Slicing a blob is arithmetic on that region, as in the code.            *)
(***************************************************************************)
EXTENDS Integers, Sequences, FiniteSets, TLC

\* ------------------------------------------------------------------------
\* Program constants
\* ------------------------------------------------------------------------
MAX_CHUNK_SIZE == 67108864

MAX_CHUNK_GAP == 32768

BLOCK_SCALE == 256

CACHE_MAXIMUM_SIZE == 100000000

BYTE_RANGE_SIZE == 16

\* ------------------------------------------------------------------------
\* Bounds of the model
\* ------------------------------------------------------------------------
\* how many of the tile-index layouts of block A / block B Init draws from
NumLayoutsA == 6

NumLayoutsB == 2

\* ------------------------------------------------------------------------
\* Small helpers
\* ------------------------------------------------------------------------
Max(a, b) == IF a >= b THEN a ELSE b

Min(a, b) == IF a <= b THEN a ELSE b

Range(s) == {s[i] : i \in 1..Len(s)}

RECURSIVE Concat(_)
Concat(ss) == IF ss = <<>> THEN <<>> ELSE Head(ss) \o Concat(Tail(ss))

\* ------------------------------------------------------------------------
\* ByteRange, Blob, DataReader
\* ------------------------------------------------------------------------
ByteRange(offset, length) == [offset |-> offset, length |-> length]

\* DataReader::read_range on success: the blob holding exactly that region
read_range(range) == [from |-> range.offset, len |-> range.length]

\* Blob::get_range(start..end) followed by Blob::from: a sub-slice of a blob
get_range(blob, start, end) == [from |-> blob.from + start, len |-> end - start]

\* ------------------------------------------------------------------------
\* TileCoord, TileBBox
\* ------------------------------------------------------------------------
TileCoord3(x, y, z) == [x |-> x, y |-> y, z |-> z]

TileCoord2(x, y) == [x |-> x, y |-> y]

as_coord2(c) == TileCoord2(c.x, c.y)

TileBBox(level, x_min, y_min, x_max, y_max) ==
    [level |-> level, x_min |-> x_min, y_min |-> y_min, x_max |-> x_max, y_max |-> y_max]

bbox_is_empty(b) == b.x_min > b.x_max \/ b.y_min > b.y_max

bbox_width(b) == IF bbox_is_empty(b) THEN 0 ELSE b.x_max - b.x_min + 1

bbox_height(b) == IF bbox_is_empty(b) THEN 0 ELSE b.y_max - b.y_min + 1

count_tiles_bbox(b) == bbox_width(b) * bbox_height(b)

\* TileBBox::contains(&TileCoord2)
contains(b, c) ==
    /\ c.x >= b.x_min /\ c.x <= b.x_max
    /\ c.y >= b.y_min /\ c.y <= b.y_max

\* TileBBox::contains3(&TileCoord3)
contains3(b, c) == c.z = b.level /\ contains(b, c)

\* TileBBox::intersect_bbox
intersect_bbox(a, b) ==
    TileBBox(a.level, Max(a.x_min, b.x_min), Max(a.y_min, b.y_min),
             Min(a.x_max, b.x_max), Min(a.y_max, b.y_max))

\* TileBBox::scale_down
scale_down(b, f) ==
    TileBBox(b.level, b.x_min \div f, b.y_min \div f, b.x_max \div f, b.y_max \div f)

\* TileBBox::get_tile_index: row-major position of a coord inside the box
get_tile_index(b, c) == (c.y - b.y_min) * bbox_width(b) + (c.x - b.x_min)

\* TileBBox::get_coord3_by_index: inverse of get_tile_index (index from 0)
get_coord3_by_index(b, index) ==
    TileCoord3(b.x_min + (index % bbox_width(b)), b.y_min + (index \div bbox_width(b)), b.level)

\* TileBBox::iter_coords: row-major, y outer, x inner
iter_coords(b) ==
    [i \in 1..count_tiles_bbox(b) |-> get_coord3_by_index(b, i - 1)]

\* ------------------------------------------------------------------------
\* BlockDefinition, BlockIndex
\* ------------------------------------------------------------------------
\* a block record: block coordinate (x, y, z), the local bbox inside the
\* 256x256 grid of the block, tiles_range and index_range
BlockDefinition(x, y, z, local, tiles_range, index_range) ==
    [x |-> x, y |-> y, z |-> z, bbox |-> local,
     tiles_range |-> tiles_range, index_range |-> index_range]

\* BlockDefinition::get_coord3
get_coord3(block) == TileCoord3(block.x, block.y, block.z)

\* BlockDefinition::get_global_bbox: local bbox offset by (x*256, y*256)
get_global_bbox(block) ==
    TileBBox(block.z,
             block.bbox.x_min + block.x * BLOCK_SCALE, block.bbox.y_min + block.y * BLOCK_SCALE,
             block.bbox.x_max + block.x * BLOCK_SCALE, block.bbox.y_max + block.y * BLOCK_SCALE)

\* BlockDefinition::count_tiles
count_tiles(block) == count_tiles_bbox(block.bbox)

\* The container under test: three blocks at level 9 (the block at (1,1) is
\* not populated), each covering a small corner of its 256x256 grid.
BlockA ==
    BlockDefinition(0, 0, 9, TileBBox(9, 254, 254, 255, 255),
                    ByteRange(1000, 150000000), ByteRange(100, 50))

BlockB ==
    BlockDefinition(1, 0, 9, TileBBox(9, 0, 254, 1, 255),
                    ByteRange(200000000, 150000), ByteRange(150, 50))

BlockC ==
    BlockDefinition(0, 1, 9, TileBBox(9, 254, 0, 255, 0),
                    ByteRange(400000000, 60000), ByteRange(200, 50))

\* BlockIndex: the block definitions, in iteration order
Blocks == <<BlockA, BlockB, BlockC>>

\* BlockIndex::get_block: point lookup by block coordinate
has_block(coord) == \E i \in 1..Len(Blocks) : get_coord3(Blocks[i]) = coord

get_block(coord) == CHOOSE b \in Range(Blocks) : get_coord3(b) = coord

\* BlockIndex::get_bbox_pyramid at one level: the box covering the global
\* bboxes of all blocks of that level (empty when the level has no block)
LevelBlocks(z) == {b \in Range(Blocks) : b.z = z}

get_bbox_pyramid(z) ==
    IF LevelBlocks(z) = {} THEN TileBBox(z, 1, 1, 0, 0)
    ELSE LET g == {get_global_bbox(b) : b \in LevelBlocks(z)}
             minOf(S) == CHOOSE m \in S : \A o \in S : m <= o
             maxOf(S) == CHOOSE m \in S : \A o \in S : m >= o
         IN TileBBox(z, minOf({q.x_min : q \in g}), minOf({q.y_min : q \in g}),
                     maxOf({q.x_max : q \in g}), maxOf({q.y_max : q \in g}))

\* ------------------------------------------------------------------------
\* Tile indexes stored in the file (offsets relative to tiles_range.offset),
\* in block-local row-major order; length 0 marks an absent tile
\* ------------------------------------------------------------------------
LayoutsA ==
    << \* contiguous tiles
       << ByteRange(0, 100), ByteRange(100, 40000), ByteRange(40100, 100), ByteRange(40200, 100) >>,
       \* a gap of exactly MAX_CHUNK_GAP before the third tile
       << ByteRange(0, 100), ByteRange(100, 100),
          ByteRange(200 + MAX_CHUNK_GAP, 100), ByteRange(300 + MAX_CHUNK_GAP, 100) >>,
       \* file order differs from tile order, one tile absent, wide gaps
       << ByteRange(100000, 50), ByteRange(0, 0), ByteRange(0, 70), ByteRange(40000, 10) >>,
       \* the first tile is longer than MAX_CHUNK_SIZE
       << ByteRange(0, MAX_CHUNK_SIZE + 1), ByteRange(MAX_CHUNK_SIZE + 1, 100),
          ByteRange(MAX_CHUNK_SIZE + 101, 100), ByteRange(0, 0) >>,
       \* two adjacent tiles spanning exactly MAX_CHUNK_SIZE
       << ByteRange(0, MAX_CHUNK_SIZE - 100), ByteRange(MAX_CHUNK_SIZE - 100, 100),
          ByteRange(0, 0), ByteRange(MAX_CHUNK_SIZE + 50000, 10) >>,
       \* identical tiles stored once
       << ByteRange(0, 100), ByteRange(0, 100), ByteRange(50000, 20), ByteRange(50000, 20) >>,
       \* a tile of exactly MAX_CHUNK_SIZE in the middle of the file order
       << ByteRange(10, MAX_CHUNK_SIZE), ByteRange(0, 10),
          ByteRange(MAX_CHUNK_SIZE + 10, 10), ByteRange(MAX_CHUNK_SIZE + 40000, 10) >>
    >>

LayoutsB ==
    << << ByteRange(0, 10), ByteRange(40000, 10), ByteRange(80000, 10), ByteRange(120000, 10) >>,
       << ByteRange(0, 10), ByteRange(10, 10), ByteRange(20, 10), ByteRange(30, 10) >>,
       << ByteRange(0, 0), ByteRange(0, 0), ByteRange(0, 0), ByteRange(0, 0) >>
    >>

LayoutC == << ByteRange(50000, 30), ByteRange(0, 30) >>

\* the contents of the file at the index_range of each block
FileTileIndexes ==
    {[b \in Range(Blocks) |->
         IF b = BlockA THEN LayoutsA[i] ELSE IF b = BlockB THEN LayoutsB[j] ELSE LayoutC] :
       i \in 1..Min(NumLayoutsA, Len(LayoutsA)), j \in 1..Min(NumLayoutsB, Len(LayoutsB))}

\* the file with the first layout of each block
FirstFile ==
    CHOOSE f \in FileTileIndexes : f[BlockA] = LayoutsA[1] /\ f[BlockB] = LayoutsB[1]

\* ------------------------------------------------------------------------
\* TileIndex
\* ------------------------------------------------------------------------
\* TileIndex::add_offset: rebase the entries to absolute file offsets
add_offset(tile_index, base) ==
    [i \in 1..Len(tile_index) |->
        IF tile_index[i].length > 0
        THEN ByteRange(tile_index[i].offset + base, tile_index[i].length)
        ELSE tile_index[i]]

\* ------------------------------------------------------------------------
\* LimitedCache: entries ordered from least to most recently touched
\* ------------------------------------------------------------------------
\* LimitedCache::with_maximum_size
with_maximum_size(n) == [maximum_size |-> n, entries |-> <<>>]

weight(value) == Len(value) * BYTE_RANGE_SIZE

RECURSIVE total_weight(_)
total_weight(entries) ==
    IF entries = <<>> THEN 0 ELSE weight(Head(entries).value) + total_weight(Tail(entries))

cache_keys(cache) == {cache.entries[i].key : i \in 1..Len(cache.entries)}

cache_has(cache, key) == key \in cache_keys(cache)

cache_value(cache, key) ==
    (CHOOSE e \in Range(cache.entries) : e.key = key).value

without_key(entries, key) == SelectSeq(entries, LAMBDA e : e.key # key)

\* LimitedCache::get on a hit: the cache after the entry became the most recent
cache_get(cache, key) ==
    [cache EXCEPT !.entries =
        Append(without_key(cache.entries, key), [key |-> key, value |-> cache_value(cache, key)])]

RECURSIVE evict(_, _)
evict(entries, maximum_size) ==
    IF entries # <<>> /\ total_weight(entries) > maximum_size
    THEN evict(Tail(entries), maximum_size)
    ELSE entries

\* LimitedCache::add: insert as most recent, then evict the least recently
\* touched entries until the total weight is within maximum_size
cache_add(cache, key, value) ==
    [cache EXCEPT !.entries =
        evict(Append(without_key(cache.entries, key), [key |-> key, value |-> value]),
              cache.maximum_size)]

\* ------------------------------------------------------------------------
\* State of a VersaTilesReader and of its caller
\* ------------------------------------------------------------------------
VARIABLES
    file,              \* the tile index stored in the file for each block
    tile_index_cache,  \* VersaTilesReader.tile_index_cache
    pc,                \* "idle", "collect", "stream", "done" or "panicked"
    panic,             \* why the task panicked ("" while it has not)
    result,            \* outcome of the last get_tile_data call
    reads,             \* byte ranges requested from the DataReader by the current call
    bbox,              \* bbox of the current get_bbox_tile_stream call
    block_coords,      \* block coordinates still to be visited by that call
    block_chunks,      \* chunk lists returned so far, one per visited block
    packed,            \* the packing done for the block visited last
    chunks,            \* chunks the returned stream still has to read
    emitted,           \* (coord, blob) items delivered to the consumer
    comp_in,           \* arguments of a call of optimize_compression
    comp_out,          \* what that call returned
    comp_again,        \* what a second call, on that result with the same target, returned
    dropped,           \* what the consumer holds of a stream it dropped, and what was pending
    op_in,             \* inputs of the property-rewrite operation: arguments, CSV data, child
    op,                \* what Operation::build returned
    op_out,            \* what Operation::get_tile_data returned
    comp_trip,         \* a blob compressed and decompressed again, and recompressed
    open_in,           \* the file open_reader is given: its header, and where reading fails
    open_out,          \* what open_reader returned, and the reads it issued
    mutex,             \* the futures holding the mutex around the reader
    fut,               \* the stream's progress and the future it is polling
    in_flight,         \* the DataReader reads in flight
    conv_in,           \* a TileConverterConfig, the source's tile format and a tile
    conv_out,          \* the tile converter chosen, and the tile it made
    sources,           \* TileServer.sources
    static_source,     \* TileServer.static_source
    arc_sources,       \* the sources the running server routes to (empty before start)
    response           \* the answer to the last request, with the request

vars == <<file, tile_index_cache, pc, panic, result, reads, bbox, block_coords,
          block_chunks, packed, chunks, emitted, comp_in, comp_out, comp_again, dropped,
          op_in, op, op_out, comp_trip, open_in, open_out, mutex, fut, in_flight, conv_in,
          conv_out, sources, static_source, arc_sources, response>>

\* the variables of the compression negotiator
compVars == <<comp_in, comp_out, comp_again, comp_trip>>

\* the variables of the property-rewrite operation
opVars == <<op_in, op, op_out>>

\* the variables of open_reader
openVars == <<open_in, open_out>>

\* the variables of the mutex around the reader
mutexVars == <<mutex, fut, in_flight>>

\* the variables of the tile converter configuration
convVars == <<conv_in, conv_out>>

\* the variables of the tile server
serverVars == <<sources, static_source, arc_sources, response>>

restVars == <<openVars, mutexVars, convVars, serverVars>>

\* the variables of a bbox stream
streamVars == <<bbox, block_coords, block_chunks, packed, chunks, emitted, dropped>>

NoResult == [kind |-> "unset"]

NoBBox == TileBBox(0, 1, 1, 0, 0)

NoPacking == [block |-> NoResult, tile_ranges |-> <<>>, chunks |-> <<>>, chunk |-> NoResult]

\* no open_reader call
OpenUnset == open_in = NoResult /\ open_out = NoResult

\* nobody uses the mutex
MutexUnset == mutex = {} /\ fut = NoResult /\ in_flight = {}

\* no tile converter configuration
ConvUnset == conv_in = NoResult /\ conv_out = NoResult

\* no tile server
ServerUnset ==
    sources = <<>> /\ static_source = NoResult /\ arc_sources = <<>> /\ response = NoResult

RestUnset == comp_trip = NoResult /\ OpenUnset /\ MutexUnset /\ ConvUnset /\ ServerUnset

\* TileIndex::from_brotli_blob applied to the blob read at a block's index_range
from_brotli_blob(f, block) == f[block]

\* ------------------------------------------------------------------------
\* VersaTilesReader::get_block_tile_index
\* ------------------------------------------------------------------------
\* get_block_tile_index without the rebasing of the offsets
get_block_tile_index_no_add_offset(cache, f, block, read_ok) ==
    LET block_coord == get_coord3(block) IN
    IF cache_has(cache, block_coord)
    THEN [kind |-> "ok", cache |-> cache_get(cache, block_coord),
          tile_index |-> cache_value(cache, block_coord), reads |-> <<>>]
    ELSE IF ~read_ok
    THEN [kind |-> "err", cache |-> cache, tile_index |-> <<>>,
          reads |-> <<block.index_range>>]
    ELSE LET tile_index == from_brotli_blob(f, block) IN
         IF Len(tile_index) # count_tiles(block)
         THEN [kind |-> "panic", cache |-> cache, tile_index |-> <<>>,
               reads |-> <<block.index_range>>]
         ELSE [kind |-> "ok", cache |-> cache_add(cache, block_coord, tile_index),
               tile_index |-> tile_index, reads |-> <<block.index_range>>]

\* get_block_tile_index that never finds the block in the cache
get_block_tile_index_no_lookup(cache, f, block, read_ok) ==
    LET block_coord == get_coord3(block) IN
    IF ~read_ok
    THEN [kind |-> "err", cache |-> cache, tile_index |-> <<>>,
          reads |-> <<block.index_range>>]
    ELSE LET tile_index == add_offset(from_brotli_blob(f, block), block.tiles_range.offset) IN
         IF Len(tile_index) # count_tiles(block)
         THEN [kind |-> "panic", cache |-> cache, tile_index |-> <<>>,
               reads |-> <<block.index_range>>]
         ELSE [kind |-> "ok", cache |-> cache_add(cache, block_coord, tile_index),
               tile_index |-> tile_index, reads |-> <<block.index_range>>]

\* get_block_tile_index that reads the index range before it looks into
\* the cache
get_block_tile_index_reads_before_lookup(cache, f, block, read_ok) ==
    LET block_coord == get_coord3(block) IN
    IF ~read_ok
    THEN [kind |-> "err", cache |-> cache, tile_index |-> <<>>,
          reads |-> <<block.index_range>>]
    ELSE IF cache_has(cache, block_coord)
    THEN [kind |-> "ok", cache |-> cache_get(cache, block_coord),
          tile_index |-> cache_value(cache, block_coord), reads |-> <<block.index_range>>]
    ELSE LET tile_index == add_offset(from_brotli_blob(f, block), block.tiles_range.offset) IN
         IF Len(tile_index) # count_tiles(block)
         THEN [kind |-> "panic", cache |-> cache, tile_index |-> <<>>,
               reads |-> <<block.index_range>>]
         ELSE [kind |-> "ok", cache |-> cache_add(cache, block_coord, tile_index),
               tile_index |-> tile_index, reads |-> <<block.index_range>>]

get_block_tile_index(cache, f, block, read_ok) ==
    LET block_coord == get_coord3(block) IN
    IF cache_has(cache, block_coord)
    THEN [kind |-> "ok", cache |-> cache_get(cache, block_coord),
          tile_index |-> cache_value(cache, block_coord), reads |-> <<>>]
    ELSE IF ~read_ok
    THEN [kind |-> "err", cache |-> cache, tile_index |-> <<>>,
          reads |-> <<block.index_range>>]
    ELSE LET tile_index == add_offset(from_brotli_blob(f, block), block.tiles_range.offset) IN
         IF Len(tile_index) # count_tiles(block)
         THEN [kind |-> "panic", cache |-> cache, tile_index |-> <<>>,
               reads |-> <<block.index_range>>]
         ELSE [kind |-> "ok", cache |-> cache_add(cache, block_coord, tile_index),
               tile_index |-> tile_index, reads |-> <<block.index_range>>]

\* ------------------------------------------------------------------------
\* VersaTilesReader::get_tile_data
\* ------------------------------------------------------------------------
\* get_tile_data fetching the tile index before the bbox check
get_tile_data_index_first(cache, f, coord, index_ok, tile_ok) ==
    LET block_coord == TileCoord3(coord.x \div BLOCK_SCALE, coord.y \div BLOCK_SCALE, coord.z)
        none == [kind |-> "none", cache |-> cache, reads |-> <<>>]
    IN
    IF ~has_block(block_coord) THEN none
    ELSE
    LET block == get_block(block_coord)
        gbbox == get_global_bbox(block)
        tile_coord == as_coord2(coord)
        ti == get_block_tile_index(cache, f, block, index_ok)
    IN
    IF ti.kind # "ok" THEN [kind |-> ti.kind, cache |-> ti.cache, reads |-> ti.reads]
    ELSE IF ~contains(gbbox, tile_coord)
    THEN [kind |-> "none", cache |-> ti.cache, reads |-> ti.reads]
    ELSE
    LET tile_range == ti.tile_index[get_tile_index(gbbox, tile_coord) + 1] IN
    IF tile_range.length = 0
    THEN [kind |-> "none", cache |-> ti.cache, reads |-> ti.reads]
    ELSE IF ~tile_ok
    THEN [kind |-> "err", cache |-> ti.cache, reads |-> Append(ti.reads, tile_range)]
    ELSE [kind |-> "some", blob |-> read_range(tile_range), cache |-> ti.cache,
          reads |-> Append(ti.reads, tile_range)]

get_tile_data(cache, f, coord, index_ok, tile_ok) ==
    LET block_coord == TileCoord3(coord.x \div BLOCK_SCALE, coord.y \div BLOCK_SCALE, coord.z)
        none == [kind |-> "none", cache |-> cache, reads |-> <<>>]
    IN
    IF ~has_block(block_coord) THEN none
    ELSE
    LET block == get_block(block_coord)
        gbbox == get_global_bbox(block)
        tile_coord == as_coord2(coord)
    IN
    IF ~contains(gbbox, tile_coord) THEN none
    ELSE
    LET tile_id == get_tile_index(gbbox, tile_coord)
        ti == get_block_tile_index(cache, f, block, index_ok)
    IN
    IF ti.kind # "ok" THEN [kind |-> ti.kind, cache |-> ti.cache, reads |-> ti.reads]
    ELSE
    LET tile_range == ti.tile_index[tile_id + 1] IN
    IF tile_range.length = 0
    THEN [kind |-> "none", cache |-> ti.cache, reads |-> ti.reads]
    ELSE IF ~tile_ok
    THEN [kind |-> "err", cache |-> ti.cache, reads |-> Append(ti.reads, tile_range)]
    ELSE [kind |-> "some", blob |-> read_range(tile_range), cache |-> ti.cache,
          reads |-> Append(ti.reads, tile_range)]

\* ------------------------------------------------------------------------
\* get_bbox_tile_stream: chunks
\* ------------------------------------------------------------------------
\* Chunk::new
Chunk_new(start) == [tiles |-> <<>>, range |-> ByteRange(start, 0)]

\* Chunk::push that leaves the range of the chunk as it is
Chunk_push_keeps_range(chunk, entry) ==
    [tiles |-> Append(chunk.tiles, entry), range |-> chunk.range]

\* Chunk::push (the caller has checked that it does not panic)
Chunk_push(chunk, entry) ==
    [tiles |-> Append(chunk.tiles, entry),
     range |-> ByteRange(chunk.range.offset,
                         Max(chunk.range.length,
                             entry.range.offset + entry.range.length - chunk.range.offset))]

push_panics(chunk, entry) == entry.range.offset < chunk.range.offset

\* the (coord, range) entries of a block that lie in the requested bbox and
\* are not empty, in tile-index order
select_tile_ranges(tile_index, tiles_bbox_block, tiles_bbox_used) ==
    SelectSeq([i \in 1..Len(tile_index) |->
                  [coord |-> get_coord3_by_index(tiles_bbox_block, i - 1),
                   range |-> tile_index[i]]],
              LAMBDA e : contains3(tiles_bbox_used, e.coord) /\ e.range.length > 0)

\* Vec::sort_by_key(|e| e.1.offset): a stable sort
RECURSIVE insert_by_offset(_, _)
insert_by_offset(sorted, e) ==
    IF sorted = <<>> THEN <<e>>
    ELSE IF e.range.offset < Head(sorted).range.offset THEN <<e>> \o sorted
    ELSE <<Head(sorted)>> \o insert_by_offset(Tail(sorted), e)

RECURSIVE sort_by_offset(_)
sort_by_offset(s) ==
    IF s = <<>> THEN <<>>
    ELSE insert_by_offset(sort_by_offset(SubSeq(s, 1, Len(s) - 1)), s[Len(s)])

\* the packing loop measuring the gap from the start of the chunk
RECURSIVE pack_chunks_gap_from_start(_, _, _)
pack_chunks_gap_from_start(tile_ranges, chunks_acc, chunk) ==
    IF tile_ranges = <<>> THEN [panicked |-> FALSE, chunks |-> chunks_acc, chunk |-> chunk]
    ELSE
    LET entry == Head(tile_ranges)
        chunk_start == chunk.range.offset
        tile_start == entry.range.offset
        tile_end == entry.range.offset + entry.range.length
    IN
    IF (chunk_start + MAX_CHUNK_SIZE > tile_end) /\ (chunk_start + MAX_CHUNK_GAP > tile_start)
    THEN IF push_panics(chunk, entry)
         THEN [panicked |-> TRUE, chunks |-> chunks_acc, chunk |-> chunk]
         ELSE pack_chunks_gap_from_start(Tail(tile_ranges), chunks_acc, Chunk_push(chunk, entry))
    ELSE pack_chunks_gap_from_start(Tail(tile_ranges), Append(chunks_acc, chunk),
                                    Chunk_push(Chunk_new(entry.range.offset), entry))

\* the greedy packing loop over the sorted entries; the result holds the
\* list `chunks` and the local `chunk` as they are when the loop ends
RECURSIVE pack_chunks(_, _, _)
pack_chunks(tile_ranges, chunks_acc, chunk) ==
    IF tile_ranges = <<>> THEN [panicked |-> FALSE, chunks |-> chunks_acc, chunk |-> chunk]
    ELSE
    LET entry == Head(tile_ranges)
        chunk_start == chunk.range.offset
        chunk_end == chunk.range.offset + chunk.range.length
        tile_start == entry.range.offset
        tile_end == entry.range.offset + entry.range.length
    IN
    IF (chunk_start + MAX_CHUNK_SIZE > tile_end) /\ (chunk_end + MAX_CHUNK_GAP > tile_start)
    THEN IF push_panics(chunk, entry)
         THEN [panicked |-> TRUE, chunks |-> chunks_acc, chunk |-> chunk]
         ELSE pack_chunks(Tail(tile_ranges), chunks_acc, Chunk_push(chunk, entry))
    ELSE pack_chunks(Tail(tile_ranges), Append(chunks_acc, chunk),
                     Chunk_push(Chunk_new(entry.range.offset), entry))

\* the per-block closure of get_bbox_tile_stream
collect_block(cache, f, stream_bbox, block_coord, read_ok) ==
    IF ~has_block(block_coord)
    THEN [kind |-> "panic", cause |-> "block does not exist", cache |-> cache,
          reads |-> <<>>, chunks |-> <<>>, packing |-> NoPacking]
    ELSE
    LET block == get_block(block_coord)
        tiles_bbox_block == get_global_bbox(block)
        tiles_bbox_used == intersect_bbox(stream_bbox, tiles_bbox_block)
        ti == get_block_tile_index(cache, f, block, read_ok)
    IN
    IF ti.kind # "ok"
    THEN [kind |-> "panic",
          cause |-> IF ti.kind = "err" THEN "tile index read failed" ELSE "tile index length",
          cache |-> ti.cache, reads |-> ti.reads, chunks |-> <<>>, packing |-> NoPacking]
    ELSE
    LET selected == select_tile_ranges(ti.tile_index, tiles_bbox_block, tiles_bbox_used) IN
    IF selected = <<>>
    THEN [kind |-> "ok", cause |-> "", cache |-> ti.cache, reads |-> ti.reads, chunks |-> <<>>,
          packing |-> [block |-> block, tile_ranges |-> <<>>, chunks |-> <<>>,
                       chunk |-> NoResult]]
    ELSE
    LET tile_ranges == sort_by_offset(selected)
        p == pack_chunks(tile_ranges, <<>>, Chunk_new(tile_ranges[1].range.offset))
    IN
    IF p.panicked
    THEN [kind |-> "panic", cause |-> "chunk push", cache |-> ti.cache, reads |-> ti.reads,
          chunks |-> <<>>, packing |-> NoPacking]
    ELSE [kind |-> "ok", cause |-> "", cache |-> ti.cache, reads |-> ti.reads,
          chunks |-> p.chunks,
          packing |-> [block |-> block, tile_ranges |-> tile_ranges,
                       chunks |-> p.chunks, chunk |-> p.chunk]]

\* slicing one chunk's blob into its tiles
slice_ok(chunk, big_blob, e) ==
    /\ e.range.offset >= chunk.range.offset
    /\ e.range.offset - chunk.range.offset + e.range.length <= big_blob.len

\* chunk_entries taking the tiles of the chunk from the back
chunk_entries_reversed(chunk, big_blob) ==
    [i \in 1..Len(chunk.tiles) |->
        LET t == chunk.tiles[Len(chunk.tiles) + 1 - i]
            start == t.range.offset - chunk.range.offset
            end == start + t.range.length
        IN [coord |-> t.coord, blob |-> get_range(big_blob, start, end)]]

chunk_entries(chunk, big_blob) ==
    [i \in 1..Len(chunk.tiles) |->
        LET start == chunk.tiles[i].range.offset - chunk.range.offset
            end == start + chunk.tiles[i].range.length
        IN [coord |-> chunk.tiles[i].coord, blob |-> get_range(big_blob, start, end)]]

\* ------------------------------------------------------------------------
\* Inputs of the calls
\* ------------------------------------------------------------------------
\* every tile of the covered area at level 9, tiles of populated blocks that
\* lie outside the block's bbox, a tile of the unpopulated block and a tile
\* of a level without blocks
TestCoords ==
    {TileCoord3(x, y, 9) : x \in 254..257, y \in 254..256}
        \cup {TileCoord3(0, 0, 9), TileCoord3(254, 257, 9), TileCoord3(300, 300, 9),
              TileCoord3(0, 0, 0)}

TestBBoxes ==
    { TileBBox(9, 254, 254, 255, 255),   \* block A
      TileBBox(9, 254, 254, 257, 255),   \* blocks A and B
      TileBBox(9, 254, 254, 255, 256),   \* blocks A and C
      TileBBox(9, 255, 255, 256, 255),   \* parts of blocks A and B
      TileBBox(9, 0, 0, 1, 1),           \* block A, none of its tiles
      TileBBox(9, 254, 254, 257, 256),   \* the whole covered area
      TileBBox(9, 256, 256, 257, 256),   \* the unpopulated block only
      TileBBox(0, 0, 0, 0, 0) }          \* a level without blocks

\* ------------------------------------------------------------------------
\* Initial state: a reader just returned by open_reader
\* ------------------------------------------------------------------------
Init ==
    /\ file \in FileTileIndexes
    /\ tile_index_cache = with_maximum_size(CACHE_MAXIMUM_SIZE)
    /\ pc = "idle"
    /\ panic = ""
    /\ result = NoResult
    /\ reads = <<>>
    /\ bbox = NoBBox
    /\ block_coords = <<>>
    /\ block_chunks = <<>>
    /\ packed = NoPacking
    /\ chunks = <<>>
    /\ emitted = <<>>
    /\ comp_in = NoResult
    /\ comp_out = NoResult
    /\ comp_again = NoResult
    /\ dropped = NoResult
    /\ op_in = NoResult
    /\ op = NoResult
    /\ op_out = NoResult
    /\ RestUnset

StreamVarsReset ==
    /\ bbox' = NoBBox
    /\ block_coords' = <<>>
    /\ block_chunks' = <<>>
    /\ packed' = NoPacking
    /\ chunks' = <<>>
    /\ emitted' = <<>>
    /\ dropped' = NoResult

\* ------------------------------------------------------------------------
\* Actions
\* ------------------------------------------------------------------------
\* a call of get_tile_data(coord); index_ok / tile_ok tell whether the
\* DataReader serves the tile-index read and the tile read
GetTileData(coord, index_ok, tile_ok) ==
    /\ pc = "idle"
    /\ LET r == get_tile_data(tile_index_cache, file, coord, index_ok, tile_ok) IN
       /\ tile_index_cache' = r.cache
       /\ reads' = r.reads
       /\ result' = IF r.kind = "some"
                    THEN [kind |-> "some", coord |-> coord, index_ok |-> index_ok,
                          tile_ok |-> tile_ok, blob |-> r.blob]
                    ELSE [kind |-> r.kind, coord |-> coord, index_ok |-> index_ok,
                          tile_ok |-> tile_ok]
       /\ pc' = IF r.kind = "panic" THEN "panicked" ELSE "idle"
       /\ panic' = IF r.kind = "panic" THEN "tile index length" ELSE ""
    /\ StreamVarsReset
    /\ UNCHANGED <<file, compVars, opVars, restVars>>

\* a call of get_bbox_tile_stream(bbox) starts: the block coordinates are listed
StartStream(b) ==
    /\ pc = "idle"
    /\ bbox' = b
    /\ block_coords' = iter_coords(scale_down(b, BLOCK_SCALE))
    /\ pc' = IF block_coords' = <<>> THEN "stream" ELSE "collect"
    /\ block_chunks' = <<>>
    /\ packed' = NoPacking
    /\ chunks' = <<>>
    /\ emitted' = <<>>
    /\ dropped' = NoResult
    /\ reads' = <<>>
    /\ result' = NoResult
    /\ UNCHANGED <<file, tile_index_cache, panic, compVars, opVars, restVars>>

\* the call visits the next block under the mutex; after the last block the
\* per-block chunk lists are flattened and the stream is returned
CollectBlock(read_ok) ==
    /\ pc = "collect"
    /\ block_coords # <<>>
    /\ LET r == collect_block(tile_index_cache, file, bbox, Head(block_coords), read_ok) IN
       /\ tile_index_cache' = r.cache
       /\ reads' = reads \o r.reads
       /\ IF r.kind = "panic"
          THEN /\ pc' = "panicked"
               /\ panic' = r.cause
               /\ UNCHANGED <<block_coords, block_chunks, packed, chunks>>
          ELSE /\ block_coords' = Tail(block_coords)
               /\ block_chunks' = Append(block_chunks, r.chunks)
               /\ packed' = r.packing
               /\ chunks' = IF block_coords' = <<>> THEN Concat(block_chunks') ELSE <<>>
               /\ pc' = IF block_coords' = <<>> THEN "stream" ELSE "collect"
               /\ UNCHANGED panic
    /\ UNCHANGED <<file, result, bbox, emitted, dropped, compVars, opVars, restVars>>

\* the consumer polls the stream while chunks remain: one chunk is read
\* under the mutex and sliced into its tiles
ReadChunk(read_ok) ==
    /\ pc = "stream"
    /\ chunks # <<>>
    /\ LET chunk == Head(chunks)
           big_blob == read_range(chunk.range)
       IN
       /\ reads' = Append(reads, chunk.range)
       /\ IF ~read_ok
          THEN /\ pc' = "panicked"
               /\ panic' = "chunk read failed"
               /\ UNCHANGED <<chunks, emitted>>
          ELSE IF \E i \in 1..Len(chunk.tiles) : ~slice_ok(chunk, big_blob, chunk.tiles[i])
          THEN /\ pc' = "panicked"
               /\ panic' = "slice out of range"
               /\ UNCHANGED <<chunks, emitted>>
          ELSE IF \E i \in 1..Len(chunk.tiles) : ~contains3(bbox, chunk.tiles[i].coord)
          THEN /\ pc' = "panicked"
               /\ panic' = "outer_bbox does not contain coord"
               /\ UNCHANGED <<chunks, emitted>>
          ELSE /\ emitted' = emitted \o chunk_entries(chunk, big_blob)
               /\ chunks' = Tail(chunks)
               /\ UNCHANGED <<pc, panic>>
    /\ UNCHANGED <<file, tile_index_cache, result, bbox, block_coords, block_chunks, packed,
                   dropped, compVars, opVars, restVars>>

\* the consumer polls the stream when no chunk remains: the stream ends
EndStream ==
    /\ pc = "stream"
    /\ chunks = <<>>
    /\ pc' = "done"
    /\ UNCHANGED <<file, tile_index_cache, panic, result, reads, compVars, opVars, restVars, streamVars>>

\* the number of tiles of the chunk the stream has read last
last_chunk_len ==
    LET all == Concat(block_chunks)
        k == Len(all) - Len(chunks)
    IN IF k = 0 THEN 0 ELSE Len(all[k].tiles)

\* what the consumer is left with when it drops the stream after taking n
\* items: the items it took, owned; the chunks not read yet are recorded
droppedAfter(n) ==
    [kind |-> "dropped", delivered |-> SubSeq(emitted, 1, n), pending |-> chunks,
     reads |-> reads]

\* a drop after which the stream's chunk reads go on in the background
DropStream_detached(n) ==
    /\ pc \in {"stream", "done"}
    /\ n \in (Len(emitted) - last_chunk_len)..Len(emitted)
    /\ pc = "done" => n = Len(emitted)
    /\ dropped' = droppedAfter(n)
    /\ UNCHANGED <<file, tile_index_cache, pc, panic, result, reads, bbox, block_coords,
                   block_chunks, packed, chunks, emitted, compVars, opVars, restVars>>

\* the consumer drops the stream, having taken n of its items: the items of
\* the chunks read before the last one, and any number of the items of the
\* last one (all of them if the stream has ended). The stream owns the
\* remaining chunks and they go with it; the reader can be called again.
DropStream(n) ==
    /\ pc \in {"stream", "done"}
    /\ n \in (Len(emitted) - last_chunk_len)..Len(emitted)
    /\ pc = "done" => n = Len(emitted)
    /\ pc' = "idle"
    /\ dropped' = droppedAfter(n)
    /\ bbox' = NoBBox
    /\ block_coords' = <<>>
    /\ block_chunks' = <<>>
    /\ packed' = NoPacking
    /\ chunks' = <<>>
    /\ emitted' = <<>>
    /\ UNCHANGED <<file, tile_index_cache, panic, result, reads, compVars, opVars, restVars>>

Next ==
    \/ \E coord \in TestCoords, index_ok \in BOOLEAN, tile_ok \in BOOLEAN :
           GetTileData(coord, index_ok, tile_ok)
    \/ \E b \in TestBBoxes : StartStream(b)
    \/ \E read_ok \in BOOLEAN : CollectBlock(read_ok)
    \/ \E read_ok \in BOOLEAN : ReadChunk(read_ok)
    \/ EndStream
    \/ \E n \in 0..Len(emitted) : DropStream(n)

Spec == Init /\ [][Next]_vars

\* ------------------------------------------------------------------------
\* What the file stores, read off the block definitions and the stored tile
\* indexes directly (not through the reader)
\* ------------------------------------------------------------------------
\* the blocks whose global bbox holds the coord
BlocksHolding(c) == {b \in Range(Blocks) : contains3(get_global_bbox(b), c)}

\* the absolute byte range of the tile at c, for a coord held by block b
StoredRange(f, b, c) ==
    LET g == get_global_bbox(b)
        row == c.y - g.y_min
        col == c.x - g.x_min
        e == f[b][row * (g.x_max - g.x_min + 1) + col + 1]
    IN ByteRange(b.tiles_range.offset + e.offset, e.length)

\* the tile at c is stored (its block exists, holds c, and the entry is not empty)
TileStored(f, c) == \E b \in BlocksHolding(c) : StoredRange(f, b, c).length > 0

\* the bytes of the file in a byte range
FileBytes(range) == [from |-> range.offset, len |-> range.length]

\* the (coord, blob) pairs of the stored tiles of a bbox
StoredTiles(f, b) ==
    {[coord |-> c, blob |-> FileBytes(StoredRange(f, blk, c))] :
        <<c, blk>> \in {<<c, blk>> \in TestCoords \X Range(Blocks) :
                           /\ contains3(b, c)
                           /\ blk \in BlocksHolding(c)
                           /\ StoredRange(f, blk, c).length > 0}}

\* C1: a bbox stream consumed to its end has delivered exactly the stored
\* tiles of the bbox, each once: the same (coord, blob) pairs get_tile_data
\* returns for the coords of the bbox.
C1_StreamYieldsStoredTiles ==
    pc = "done" =>
        /\ Range(emitted) = StoredTiles(file, bbox)
        /\ \A i, j \in 1..Len(emitted) : emitted[i].coord = emitted[j].coord => i = j

\* C2: get_tile_data(c) returns the bytes at the absolute range of the index
\* entry of c (row-major position in the block's global bbox, rebased by
\* tiles_range.offset) or None, and None for every c outside the bbox pyramid.
C2_TileDataIsStoredBytes ==
    result.kind \in {"some", "none", "err"} =>
        LET c == result.coord IN
        /\ result.kind = "some" =>
              \E b \in BlocksHolding(c) :
                  /\ StoredRange(file, b, c).length > 0
                  /\ result.blob = FileBytes(StoredRange(file, b, c))
        /\ result.kind = "none" => ~TileStored(file, c)
        /\ ~contains3(get_bbox_pyramid(c.z), c) => result.kind = "none"

C2_Witness ==
    /\ result.kind = "some"
    /\ result.coord = TileCoord3(255, 255, 9)
    /\ result.blob.from > BlockA.tiles_range.offset

\* C3: a call of get_tile_data for a tile whose block is not in the block
\* index, or that lies outside its block's bbox, returns None without any
\* read and without touching the cache; a tile whose index entry is empty
\* yields None whenever the tile index is available (cached, or read
\* successfully); an error is returned only when a read failed.
BlockCoordOf(c) == TileCoord3(c.x \div BLOCK_SCALE, c.y \div BLOCK_SCALE, c.z)

C3_AbsentTileIsNone ==
    [][(pc = "idle" /\ result'.kind # "unset") =>
          LET c == result'.coord IN
          /\ BlocksHolding(c) = {} =>
                /\ result'.kind = "none"
                /\ reads' = <<>>
                /\ tile_index_cache' = tile_index_cache
          /\ (BlocksHolding(c) # {} /\ ~TileStored(file, c)
                /\ (result'.index_ok \/ cache_has(tile_index_cache, BlockCoordOf(c))))
                => result'.kind = "none"
          /\ result'.kind = "err" => (~result'.index_ok \/ ~result'.tile_ok)
      ]_vars

C3_Witness ==
    /\ result.kind = "none"
    /\ result.coord = TileCoord3(0, 0, 9)
    /\ reads = <<>>
    /\ cache_has(tile_index_cache, get_coord3(BlockB))

\* ------------------------------------------------------------------------
\* The chunks built for the block visited last: the returned list followed
\* by the chunk under construction when the loop ended
\* ------------------------------------------------------------------------
BuiltChunks ==
    IF packed.tile_ranges = <<>> THEN <<>> ELSE Append(packed.chunks, packed.chunk)

RECURSIVE TilesBefore(_, _)
TilesBefore(cs, k) == IF k <= 1 THEN 0 ELSE Len(cs[k - 1].tiles) + TilesBefore(cs, k - 1)

\* the index in cs of the chunk holding the i-th sorted entry
ChunkOfEntry(cs, i) ==
    CHOOSE k \in 1..Len(cs) : TilesBefore(cs, k) < i /\ i <= TilesBefore(cs, k) + Len(cs[k].tiles)

RangeEnd(r) == r.offset + r.length

\* the end of chunk k when it held only the entries before the i-th
RECURSIVE EndBefore(_, _, _)
EndBefore(entries, first, i) ==
    IF i <= first THEN entries[first].offset
    ELSE Max(RangeEnd(entries[i - 1]), EndBefore(entries, first, i - 1))

SplitPairs ==
    {i \in 1..(Len(packed.tile_ranges) - 1) :
        ChunkOfEntry(BuiltChunks, i) # ChunkOfEntry(BuiltChunks, i + 1)}

C4_WitnessGap ==
    \E i \in SplitPairs :
        packed.tile_ranges[i + 1].range.offset
            - RangeEnd(BuiltChunks[ChunkOfEntry(BuiltChunks, i)].range) = MAX_CHUNK_GAP

\* ------------------------------------------------------------------------
\* C5: tiles are emitted block by block in the iteration order of the block
\* coordinates (ascending y, then x); the chunks of a block are in ascending
\* start offset, and the tiles of a chunk in ascending file offset.
\* ------------------------------------------------------------------------
BlockLess(a, b) == a.y < b.y \/ (a.y = b.y /\ a.x < b.x)

C5_EmissionOrder ==
    /\ \A i, j \in 1..Len(emitted) :
          i < j =>
             LET bi == BlockCoordOf(emitted[i].coord)
                 bj == BlockCoordOf(emitted[j].coord)
             IN \/ BlockLess(bi, bj)
                \/ (bi = bj /\ emitted[i].blob.from <= emitted[j].blob.from)
    /\ \A n \in 1..Len(block_chunks) :
          /\ \A k \in 1..(Len(block_chunks[n]) - 1) :
                block_chunks[n][k].range.offset <= block_chunks[n][k + 1].range.offset
          /\ \A k \in 1..Len(block_chunks[n]) :
                \A t \in 1..(Len(block_chunks[n][k].tiles) - 1) :
                    block_chunks[n][k].tiles[t].range.offset
                        <= block_chunks[n][k].tiles[t + 1].range.offset

\* a finished stream that delivered tiles of two blocks, several of one
\* block, and at least two tiles out of one chunk
C5_Witness ==
    /\ pc = "done"
    /\ \E i, j \in 1..Len(emitted) :
          BlockCoordOf(emitted[i].coord) # BlockCoordOf(emitted[j].coord)
    /\ \E n \in 1..Len(block_chunks) : \E k \in 1..Len(block_chunks[n]) :
          Len(block_chunks[n][k].tiles) >= 2
    /\ \E n \in 1..Len(block_chunks) : Len(block_chunks[n]) >= 2

\* C28: every (coord, range) entry selected for a block (coord inside the
\* requested bbox, range.length > 0) is a member of exactly one chunk of the
\* chunk list returned for that block, the entries of the chunk under
\* construction when the loop over the entries ends included
C28_EntryInExactlyOneChunk ==
    \A i \in 1..Len(packed.tile_ranges) :
        Cardinality({kt \in {<<k, t>> : k \in 1..Len(packed.chunks),
                                        t \in 1..Len(packed.tile_ranges)} :
                        /\ kt[2] <= Len(packed.chunks[kt[1]].tiles)
                        /\ packed.chunks[kt[1]].tiles[kt[2]] = packed.tile_ranges[i]}) = 1

\* C29: every chunk returned by the greedy packing holds at least one tile
\* and has range.length > 0, so that no read_range of length zero is issued,
\* also when the first selected tile of a block is at least MAX_CHUNK_SIZE
\* long
C29_NoEmptyChunk ==
    /\ \A n \in 1..Len(block_chunks) : \A k \in 1..Len(block_chunks[n]) :
          /\ block_chunks[n][k].tiles # <<>>
          /\ block_chunks[n][k].range.length > 0
    /\ \A i \in 1..Len(reads) : reads[i].length > 0

\* the chunks of the stream, and how many of them the stream has read
StreamChunks == Concat(block_chunks)

ChunksRead == Len(StreamChunks) - Len(chunks)

\* C25: a bbox stream consumed to completion has issued, after the tile-index
\* reads of its blocks, exactly one read_range per chunk of the stream, for
\* exactly chunk.range and in the order of the chunks, and no other read;
\* every tile of a chunk lies inside chunk.range, so that no slice of the
\* chunk blob is out of range
C25_OneReadPerChunk ==
    /\ pc \in {"stream", "done"} =>
          LET n == Len(reads) - ChunksRead IN
          /\ n >= 0
          /\ \A i \in 1..n : \E b \in Range(Blocks) : reads[i] = b.index_range
          /\ \A i \in 1..ChunksRead : reads[n + i] = StreamChunks[i].range
          /\ pc = "done" => ChunksRead = Len(StreamChunks)
    /\ \A n \in 1..Len(block_chunks) : \A k \in 1..Len(block_chunks[n]) :
          LET chunk == block_chunks[n][k] IN
          \A t \in 1..Len(chunk.tiles) :
              /\ chunk.range.offset <= chunk.tiles[t].range.offset
              /\ RangeEnd(chunk.tiles[t].range) <= RangeEnd(chunk.range)
    /\ panic # "slice out of range"

\* a stream consumed to completion that read two chunks or more, one of
\* them holding several tiles
C25_Witness ==
    /\ pc = "done"
    /\ Len(StreamChunks) >= 2
    /\ \E k \in 1..Len(StreamChunks) : Len(StreamChunks[k].tiles) >= 2
    /\ Len(emitted) >= 3

\* the reads a step issues: get_tile_data and a new stream start from an
\* empty list, the steps of a stream append to it
NewReads ==
    IF pc = "idle" THEN reads' ELSE SubSeq(reads', Len(reads) + 1, Len(reads'))

\* C22: get_block_tile_index looks into the cache first: while the tile
\* index of a block is in the cache, no step of get_tile_data or of a bbox
\* stream reads block.index_range, and as long as the index stays in the
\* cache it is the one that was inserted, the stored index rebased by
\* block.tiles_range.offset
C22_CacheFirst ==
    [][\A b \in Range(Blocks) :
          cache_has(tile_index_cache, get_coord3(b)) =>
             /\ \A i \in 1..Len(NewReads) : NewReads[i] # b.index_range
             /\ cache_value(tile_index_cache, get_coord3(b))
                    = add_offset(from_brotli_blob(file, b), b.tiles_range.offset)
             /\ cache_has(tile_index_cache', get_coord3(b)) =>
                    cache_value(tile_index_cache', get_coord3(b))
                        = cache_value(tile_index_cache, get_coord3(b))
      ]_vars

\* a stream consumed to completion that delivered tiles without a single
\* tile-index read: the indexes of its blocks were in the cache
C22_Witness ==
    /\ pc = "done"
    /\ emitted # <<>>
    /\ \A i \in 1..Len(reads) : \A b \in Range(Blocks) : reads[i] # b.index_range
    /\ \E b \in Range(Blocks) : cache_has(tile_index_cache, get_coord3(b))

\* C6: a block coordinate of the bbox that is not in the block index is
\* reported to the consumer as an error; the calling task does not panic.
C6_MissingBlockIsAnError ==
    ~(pc = "panicked" /\ panic = "block does not exist")

\* C7: a failed tile-index read or chunk read during bbox streaming ends the
\* stream with a status the consumer can observe; it is not turned into a panic.
C7_StreamFailureIsReported ==
    ~(pc = "panicked" /\ panic \in {"tile index read failed", "chunk read failed"})

\* C20: once the consumer has dropped the stream, no chunk read is issued
\* to the DataReader any more, although chunks may have been pending, and
\* every item the consumer took holds the stored bytes of its tile.
C20_DropStopsReads ==
    dropped # NoResult =>
        /\ reads = dropped.reads
        /\ \A i \in 1..Len(dropped.delivered) :
              LET item == dropped.delivered[i] IN
              \E b \in BlocksHolding(item.coord) :
                  /\ StoredRange(file, b, item.coord).length > 0
                  /\ item.blob = FileBytes(StoredRange(file, b, item.coord))

\* a stream dropped with items taken and chunks still to read
C20_Witness ==
    /\ dropped # NoResult
    /\ pc = "idle"
    /\ dropped.delivered # <<>>
    /\ dropped.pending # <<>>

\* ------------------------------------------------------------------------
\* Compression (utils/compression.rs). Here a blob is its sequence of bytes.
\* The encoders are modelled by the framing of their formats with the data
\* stored uncompressed: gzip as magic bytes, data, length trailer; brotli as
\* window bits, length, data. The decoders reject any other framing.
\* ------------------------------------------------------------------------
MaxPayloadLen == 2

MaxByte == 1

Uncompressed == "Uncompressed"

Gzip == "Gzip"

Brotli == "Brotli"

TileCompression == {Uncompressed, Gzip, Brotli}

RECURSIVE SeqsUpTo(_, _)
SeqsUpTo(S, n) ==
    IF n = 0 THEN {<<>>}
    ELSE SeqsUpTo(S, n - 1) \cup {Append(q, b) : q \in SeqsUpTo(S, n - 1), b \in S}

Payloads == SeqsUpTo(0..MaxByte, MaxPayloadLen)

Ok(blob) == [ok |-> TRUE, blob |-> blob]

Err(msg) == [ok |-> FALSE, msg |-> msg]

GZIP_ID1 == 31

GZIP_ID2 == 139

BROTLI_LGWIN == 19

BROTLI_LGWIN_FAST == 16

\* compress_gzip
compress_gzip(blob) == Ok(<<GZIP_ID1, GZIP_ID2>> \o blob \o <<Len(blob)>>)

\* decompress_gzip
decompress_gzip(blob) ==
    IF /\ Len(blob) >= 3
       /\ blob[1] = GZIP_ID1 /\ blob[2] = GZIP_ID2
       /\ blob[Len(blob)] = Len(blob) - 3
    THEN Ok(SubSeq(blob, 3, Len(blob) - 1))
    ELSE Err("gzip")

\* compress_brotli
compress_brotli(blob) == Ok(<<BROTLI_LGWIN, Len(blob)>> \o blob)

\* compress_brotli_fast
compress_brotli_fast(blob) == Ok(<<BROTLI_LGWIN_FAST, Len(blob)>> \o blob)

\* decompress_brotli
decompress_brotli(blob) ==
    IF /\ Len(blob) >= 2
       /\ blob[1] \in {BROTLI_LGWIN, BROTLI_LGWIN_FAST}
       /\ blob[2] = Len(blob) - 2
    THEN Ok(SubSeq(blob, 3, Len(blob)))
    ELSE Err("brotli")

\* compress
compress(blob, compression) ==
    CASE compression = Uncompressed -> Ok(blob)
      [] compression = Gzip -> compress_gzip(blob)
      [] compression = Brotli -> compress_brotli(blob)

\* decompress
decompress(blob, compression) ==
    CASE compression = Uncompressed -> Ok(blob)
      [] compression = Gzip -> decompress_gzip(blob)
      [] compression = Brotli -> decompress_brotli(blob)

\* recompress without the test for equal codecs: it always decompresses
\* and compresses again
recompress_always_converts(blob, input_compression, output_compression) ==
    LET data == decompress(blob, input_compression)
    IN  IF ~data.ok THEN data ELSE compress(data.blob, output_compression)

\* recompress
recompress(blob, input_compression, output_compression) ==
    IF input_compression = output_compression
    THEN Ok(blob)
    ELSE LET data == decompress(blob, input_compression)
         IN  IF ~data.ok THEN data ELSE compress(data.blob, output_compression)

\* the outcome of optimize_compression: the result of r paired with the
\* codec (an error of r is passed on by `?`), and the codec functions the
\* call has run
OkWith(r, compression, calls) ==
    IF r.ok THEN [ok |-> TRUE, blob |-> r.blob, compression |-> compression, calls |-> calls]
    ELSE [ok |-> FALSE, msg |-> r.msg, calls |-> calls]

\* optimize_compression, match arm Uncompressed, trying Gzip before Brotli
optimize_uncompressed_prefers_gzip(blob, compressions) ==
    IF Gzip \in compressions THEN OkWith(compress_gzip(blob), Gzip, <<"compress_gzip">>)
    ELSE IF Brotli \in compressions
    THEN OkWith(compress_brotli(blob), Brotli, <<"compress_brotli">>)
    ELSE OkWith(Ok(blob), Uncompressed, <<>>)

\* optimize_compression, match arm Uncompressed
optimize_uncompressed(blob, compressions) ==
    IF Brotli \in compressions THEN OkWith(compress_brotli(blob), Brotli, <<"compress_brotli">>)
    ELSE IF Gzip \in compressions THEN OkWith(compress_gzip(blob), Gzip, <<"compress_gzip">>)
    ELSE OkWith(Ok(blob), Uncompressed, <<>>)

\* optimize_compression, match arm Gzip, keeping a Gzip blob whenever Gzip is acceptable
optimize_gzip_keeps_gzip(blob, compressions) ==
    IF Gzip \in compressions THEN OkWith(Ok(blob), Gzip, <<>>)
    ELSE IF Brotli \in compressions
    THEN (LET data == decompress_gzip(blob) IN
          IF ~data.ok THEN OkWith(data, Brotli, <<"decompress_gzip">>)
          ELSE OkWith(compress_brotli(data.blob), Brotli,
                      <<"decompress_gzip", "compress_brotli">>))
    ELSE OkWith(decompress_gzip(blob), Uncompressed, <<"decompress_gzip">>)

\* optimize_compression, match arm Gzip
optimize_gzip(blob, compressions) ==
    IF Brotli \in compressions
    THEN (LET data == decompress_gzip(blob) IN
          IF ~data.ok THEN OkWith(data, Brotli, <<"decompress_gzip">>)
          ELSE OkWith(compress_brotli(data.blob), Brotli,
                      <<"decompress_gzip", "compress_brotli">>))
    ELSE IF Gzip \in compressions THEN OkWith(Ok(blob), Gzip, <<>>)
    ELSE OkWith(decompress_gzip(blob), Uncompressed, <<"decompress_gzip">>)

\* optimize_compression, match arm Brotli
optimize_brotli(blob, compressions) ==
    IF Brotli \in compressions THEN OkWith(Ok(blob), Brotli, <<>>)
    ELSE LET data == decompress_brotli(blob) IN
         IF ~data.ok THEN OkWith(data, Gzip, <<"decompress_brotli">>)
         ELSE IF Gzip \in compressions
         THEN OkWith(compress_gzip(data.blob), Gzip, <<"decompress_brotli", "compress_gzip">>)
         ELSE OkWith(data, Uncompressed, <<"decompress_brotli">>)

\* optimize_compression returning the input whenever best_compression is off
optimize_compression_unchecked_shortcut(blob, input, compressions, best_compression) ==
    IF compressions = {} THEN OkWith(Err("no compression allowed"), input, <<>>)
    ELSE IF ~best_compression THEN OkWith(Ok(blob), input, <<>>)
    ELSE CASE input = Uncompressed -> optimize_uncompressed(blob, compressions)
           [] input = Gzip -> optimize_gzip(blob, compressions)
           [] input = Brotli -> optimize_brotli(blob, compressions)

\* optimize_compression without the early return for an acceptable input
optimize_compression_always_converts(blob, input, compressions, best_compression) ==
    IF compressions = {} THEN OkWith(Err("no compression allowed"), input, <<>>)
    ELSE CASE input = Uncompressed -> optimize_uncompressed(blob, compressions)
           [] input = Gzip -> optimize_gzip(blob, compressions)
           [] input = Brotli -> optimize_brotli(blob, compressions)

\* optimize_compression without the test for an empty set
optimize_compression_accepts_empty_set(blob, input, compressions, best_compression) ==
    IF ~best_compression /\ input \in compressions THEN OkWith(Ok(blob), input, <<>>)
    ELSE CASE input = Uncompressed -> optimize_uncompressed(blob, compressions)
           [] input = Gzip -> optimize_gzip(blob, compressions)
           [] input = Brotli -> optimize_brotli(blob, compressions)

\* optimize_compression; target = (compressions, best_compression)
optimize_compression(blob, input, compressions, best_compression) ==
    IF compressions = {} THEN OkWith(Err("no compression allowed"), input, <<>>)
    ELSE IF ~best_compression /\ input \in compressions THEN OkWith(Ok(blob), input, <<>>)
    ELSE CASE input = Uncompressed -> optimize_uncompressed(blob, compressions)
           [] input = Gzip -> optimize_gzip(blob, compressions)
           [] input = Brotli -> optimize_brotli(blob, compressions)

\* the calls: every payload, encoded in every codec, with every target
CompressionInputs ==
    {[payload |-> p, blob |-> compress(p, c).blob, input |-> c,
      compressions |-> t, best_compression |-> best] :
        p \in Payloads, c \in TileCompression, t \in SUBSET TileCompression, best \in BOOLEAN}

InitCompression ==
    /\ comp_in \in CompressionInputs
    /\ comp_out = NoResult
    /\ comp_again = NoResult
    /\ dropped = NoResult
    /\ op_in = NoResult
    /\ op = NoResult
    /\ op_out = NoResult
    /\ RestUnset
    /\ file = FirstFile
    /\ tile_index_cache = with_maximum_size(CACHE_MAXIMUM_SIZE)
    /\ pc = "compression"
    /\ panic = ""
    /\ result = NoResult
    /\ reads = <<>>
    /\ bbox = NoBBox
    /\ block_coords = <<>>
    /\ block_chunks = <<>>
    /\ packed = NoPacking
    /\ chunks = <<>>
    /\ emitted = <<>>

\* a call of optimize_compression(blob, &input, target)
OptimizeCompression ==
    /\ pc = "compression"
    /\ comp_out = NoResult
    /\ comp_out' = optimize_compression(comp_in.blob, comp_in.input, comp_in.compressions,
                                        comp_in.best_compression)
    /\ UNCHANGED <<file, tile_index_cache, pc, panic, result, reads, comp_in, comp_again,
                   comp_trip, opVars, restVars, streamVars>>

\* a second call of optimize_compression, on what the first call returned
\* and with the same target
OptimizeAgain ==
    /\ pc = "compression"
    /\ comp_out # NoResult
    /\ comp_out.ok
    /\ comp_again = NoResult
    /\ comp_again' = optimize_compression(comp_out.blob, comp_out.compression,
                                          comp_in.compressions, comp_in.best_compression)
    /\ UNCHANGED <<file, tile_index_cache, pc, panic, result, reads, comp_in, comp_out,
                   comp_trip, opVars, restVars, streamVars>>

\* the blobs a round trip starts from: the payload and its encoded form
RoundTripBlobs == {comp_in.payload, comp_in.blob}

\* compress(b, k) followed by decompress(.., k), the same with the fast
\* Brotli encoder, and recompress(b, k, k)
RoundTrip(b, k) ==
    /\ pc = "compression"
    /\ comp_trip = NoResult
    /\ comp_trip' =
         [blob |-> b, compression |-> k,
          compressed |-> compress(b, k),
          back |-> LET c == compress(b, k)
                   IN  IF ~c.ok THEN c ELSE decompress(c.blob, k),
          fast_back |-> LET c == compress_brotli_fast(b)
                        IN  IF ~c.ok THEN c ELSE decompress_brotli(c.blob),
          recompressed |-> recompress(b, k, k)]
    /\ UNCHANGED <<file, tile_index_cache, pc, panic, result, reads, comp_in, comp_out,
                   comp_again, opVars, restVars, streamVars>>

NextCompression ==
    \/ OptimizeCompression
    \/ OptimizeAgain
    \/ \E b \in RoundTripBlobs, k \in TileCompression : RoundTrip(b, k)

SpecCompression == InitCompression /\ [][NextCompression]_vars

\* C9: with a non-empty acceptable set the call succeeds and the codec it
\* returns is a member of the acceptable set.
C9_CodecIsAcceptable ==
    (comp_out # NoResult /\ comp_in.compressions # {}) =>
        /\ comp_out.ok
        /\ comp_out.compression \in comp_in.compressions

\* a call that had to change the codec, with best_compression off
C9_Witness ==
    /\ comp_out # NoResult
    /\ comp_out.ok
    /\ ~comp_in.best_compression
    /\ comp_in.input \notin comp_in.compressions
    /\ comp_out.compression \in comp_in.compressions
    /\ Cardinality(comp_in.compressions) = 2

\* the highest-ranked codec of a set, in the order Brotli > Gzip > Uncompressed
HighestRanked(t) ==
    IF Brotli \in t THEN Brotli ELSE IF Gzip \in t THEN Gzip ELSE Uncompressed

\* C10: when best_compression is set or the input codec is not acceptable,
\* the call returns the highest-ranked acceptable codec, and the returned
\* blob decodes under that codec to the payload of the input.
C10_BestCodecAndPayload ==
    (/\ comp_out # NoResult
     /\ comp_in.compressions # {}
     /\ (comp_in.best_compression \/ comp_in.input \notin comp_in.compressions)) =>
        /\ comp_out.ok
        /\ comp_out.compression = HighestRanked(comp_in.compressions)
        /\ decompress(comp_out.blob, comp_out.compression) = Ok(comp_in.payload)

\* an uncompressed, non-empty blob recompressed to Brotli although the
\* input codec was acceptable
C10_Witness ==
    /\ comp_out # NoResult
    /\ comp_out.ok
    /\ comp_in.best_compression
    /\ comp_in.input = Uncompressed
    /\ comp_in.compressions = TileCompression
    /\ comp_out.compression = Brotli
    /\ Len(comp_in.payload) = MaxPayloadLen
    /\ comp_out.blob # comp_in.blob

\* C11: with best_compression off and the input codec acceptable the call
\* returns the input blob and the input codec, and has run no codec function.
C11_AcceptableInputUnchanged ==
    (/\ comp_out # NoResult
     /\ ~comp_in.best_compression
     /\ comp_in.input \in comp_in.compressions) =>
        /\ comp_out.ok
        /\ comp_out.blob = comp_in.blob
        /\ comp_out.compression = comp_in.input
        /\ comp_out.calls = <<>>

\* a Gzip blob returned as it is although Brotli is acceptable too
C11_Witness ==
    /\ comp_out # NoResult
    /\ ~comp_in.best_compression
    /\ comp_in.input = Gzip
    /\ comp_in.compressions = {Gzip, Brotli}
    /\ comp_out.blob = comp_in.blob
    /\ Len(comp_in.payload) = MaxPayloadLen

\* C12: the call applied to its own output with the same non-empty target
\* returns that output: the same blob and the same codec.
C12_Idempotent ==
    (comp_again # NoResult /\ comp_in.compressions # {}) =>
        /\ comp_again.ok
        /\ comp_again.blob = comp_out.blob
        /\ comp_again.compression = comp_out.compression

\* a second call on an output whose codec the first call had changed
C12_Witness ==
    /\ comp_again # NoResult
    /\ comp_again.ok
    /\ comp_in.best_compression
    /\ comp_in.input = Uncompressed
    /\ comp_in.compressions = {Gzip, Brotli}
    /\ comp_out.compression # comp_in.input
    /\ comp_out.blob # comp_in.blob

\* C13: with an empty acceptable set the call returns the error "no
\* compression allowed", whatever the input codec and best_compression, and
\* has run no codec function.
C13_EmptySetIsAnError ==
    (comp_out # NoResult /\ comp_in.compressions = {}) =>
        /\ ~comp_out.ok
        /\ comp_out.msg = "no compression allowed"
        /\ comp_out.calls = <<>>

\* the error returned for a Brotli blob with best_compression set
C13_Witness ==
    /\ comp_out # NoResult
    /\ comp_in.compressions = {}
    /\ comp_in.input = Brotli
    /\ comp_in.best_compression
    /\ ~comp_out.ok

C23_CorruptIndexIsAnError ==
    (/\ result.kind # "unset"
     /\ reads # <<>>
     /\ Len(from_brotli_blob(file, result.block)) # count_tiles(result.block)) =>
        /\ result.kind = "err"
        /\ pc # "panicked"
        /\ ~cache_has(tile_index_cache, get_coord3(result.block))

\* ------------------------------------------------------------------------
\* The tile-index cache under small capacities: a LimitedCache built by
\* with_maximum_size(n) and used through get_block_tile_index
\* ------------------------------------------------------------------------
\* the largest capacity, in tile-index entries
MaxCacheTiles == 10

\* the first file with a tile index for BlockC that holds one entry more
\* than the block has tiles
CorruptFile == [FirstFile EXCEPT ![BlockC] = Append(LayoutC, ByteRange(100, 30))]

InitCache ==
    /\ file \in {FirstFile, CorruptFile}
    /\ \E n \in 0..MaxCacheTiles : tile_index_cache = with_maximum_size(n * BYTE_RANGE_SIZE)
    /\ pc = "cache"
    /\ panic = ""
    /\ result = NoResult
    /\ reads = <<>>
    /\ bbox = NoBBox
    /\ block_coords = <<>>
    /\ block_chunks = <<>>
    /\ packed = NoPacking
    /\ chunks = <<>>
    /\ emitted = <<>>
    /\ comp_in = NoResult
    /\ comp_out = NoResult
    /\ comp_again = NoResult
    /\ dropped = NoResult
    /\ op_in = NoResult
    /\ op = NoResult
    /\ op_out = NoResult
    /\ RestUnset

\* a call of get_block_tile_index(block)
LoadTileIndex(block, read_ok) ==
    /\ pc = "cache"
    /\ LET r == get_block_tile_index(tile_index_cache, file, block, read_ok) IN
       /\ tile_index_cache' = r.cache
       /\ reads' = r.reads
       /\ result' = [kind |-> r.kind, block |-> block, tile_index |-> r.tile_index,
                     evicted |-> cache_keys(tile_index_cache) \ cache_keys(r.cache)]
       /\ pc' = IF r.kind = "panic" THEN "panicked" ELSE "cache"
       /\ panic' = IF r.kind = "panic" THEN "tile index length" ELSE ""
    /\ UNCHANGED <<file, compVars, opVars, restVars, streamVars>>

NextCache == \E block \in Range(Blocks), read_ok \in BOOLEAN : LoadTileIndex(block, read_ok)

SpecCache == InitCache /\ [][NextCache]_vars

\* C8: the total weight of the cached tile indexes never exceeds the
\* capacity; a block whose tile index was added and not evicted since is
\* served from the cache (no read, the index that was added); entries leave
\* the cache only in a step that adds an index the capacity has no room for.
C8_CacheBoundedAndRetrievable ==
    /\ [](/\ total_weight(tile_index_cache.entries) <= tile_index_cache.maximum_size
          /\ \A i, j \in 1..Len(tile_index_cache.entries) :
                tile_index_cache.entries[i].key = tile_index_cache.entries[j].key => i = j)
    /\ [][(pc = "cache" /\ result'.kind # "unset") =>
            LET b == result'.block
                k == get_coord3(b)
                stored == add_offset(file[b], b.tiles_range.offset)
            IN
            /\ cache_has(tile_index_cache, k) =>
                  /\ reads' = <<>>
                  /\ result'.kind = "ok"
                  /\ result'.tile_index = stored
                  /\ cache_keys(tile_index_cache') = cache_keys(tile_index_cache)
            /\ result'.kind = "ok" => result'.tile_index = stored
            /\ cache_keys(tile_index_cache') \subseteq cache_keys(tile_index_cache) \cup {k}
            /\ cache_keys(tile_index_cache') # cache_keys(tile_index_cache) \cup {k} =>
                  \/ result'.kind # "ok"
                  \/ total_weight(tile_index_cache.entries) + weight(stored)
                        > tile_index_cache.maximum_size
          ]_vars

\* an index was added, an older one was evicted for it, and one stayed
C8_Witness ==
    /\ pc = "cache"
    /\ result.kind = "ok"
    /\ result.evicted # {}
    /\ Len(tile_index_cache.entries) = 2
    /\ cache_has(tile_index_cache, get_coord3(result.block))

\* ------------------------------------------------------------------------
\* The property-rewrite operation (vectortiles_update_properties.rs).
\* A GeoValue is its type with its text; GeoProperties is a function from
\* keys to values; a VectorTile is its sequence of layers, a layer has a
\* name and features, a feature an identity and its properties. A tile
\* blob is a one-element byte string holding the tile, so that the codecs
\* above frame it and a blob decoded with the wrong codec is rejected.
\* ------------------------------------------------------------------------
None == [some |-> FALSE]

Some(value) == [some |-> TRUE, value |-> value]

PBF == "PBF"

PNG == "PNG"

GeoValue_UInt(v) == [type |-> "UInt", v |-> v]

GeoValue_String(v) == [type |-> "String", v |-> v]

\* GeoValue::to_string
to_string(value) == value.v

\* GeoProperties::remove
properties_remove(properties, key) == [k \in DOMAIN properties \ {key} |-> properties[k]]

\* GeoProperties::update
properties_update(prop, new_prop) ==
    [k \in DOMAIN prop \cup DOMAIN new_prop |->
        IF k \in DOMAIN new_prop THEN new_prop[k] ELSE prop[k]]

\* HashMap::new
hashmap_new == [k \in {} |-> None]

\* HashMap::insert, as collect() does for each (key, properties) pair
hashmap_insert(map, key, value) ==
    [k \in DOMAIN map \cup {key} |-> IF k = key THEN value ELSE map[k]]

\* VectorTile::to_blob
to_blob(tile) == Ok(<<tile>>)

\* VectorTile::from_blob
from_blob(blob) == IF Len(blob) = 1 THEN [ok |-> TRUE, tile |-> blob[1]] ELSE Err("pbf")

\* Operation::build, the closure applied to a CSV row that has the key
properties_map_entry_keeps_id(args, properties) ==
    [key |-> to_string(properties[args.id_field_data]), properties |-> properties]

properties_map_entry(args, properties) ==
    [key |-> to_string(properties[args.id_field_data]),
     properties |-> IF ~args.include_id
                    THEN properties_remove(properties, args.id_field_data)
                    ELSE properties]

\* Operation::build, the properties map, leaving out the rows without the key
RECURSIVE collect_properties_map_skips_rows(_, _, _)
collect_properties_map_skips_rows(args, data, map) ==
    IF data = <<>> THEN [ok |-> TRUE, map |-> map]
    ELSE LET properties == Head(data) IN
         IF args.id_field_data \notin DOMAIN properties
         THEN collect_properties_map_skips_rows(args, Tail(data), map)
         ELSE LET e == properties_map_entry(args, properties) IN
              collect_properties_map_skips_rows(args, Tail(data),
                                                hashmap_insert(map, e.key, e.properties))

\* Operation::build, the properties map collected from the CSV rows in
\* order; the first row without the key ends the collection with an error
RECURSIVE collect_properties_map(_, _, _)
collect_properties_map(args, data, map) ==
    IF data = <<>> THEN [ok |-> TRUE, map |-> map]
    ELSE LET properties == Head(data) IN
         IF args.id_field_data \notin DOMAIN properties
         THEN Err("Key '" \o args.id_field_data \o "' not found in CSV data")
         ELSE LET e == properties_map_entry(args, properties) IN
              collect_properties_map(args, Tail(data),
                                     hashmap_insert(map, e.key, e.properties))

\* Operation::build with the runner taking the compression the operation reports
build_runner_uncompressed(args, csv, parameters) ==
    IF ~csv.ok THEN Err("Failed to read CSV file")
    ELSE LET m == collect_properties_map(args, csv.data, hashmap_new) IN
         IF ~m.ok THEN m
         ELSE IF parameters.tile_format # PBF THEN Err("source must be vector tiles")
         ELSE [ok |-> TRUE,
               runner |-> [args |-> args, properties_map |-> m.map,
                           tile_compression |-> Uncompressed],
               parameters |-> [parameters EXCEPT !.tile_compression = Uncompressed]]

\* Operation::build; csv is what read_csv_file returned, parameters the
\* parameters of the source
build(args, csv, parameters) ==
    IF ~csv.ok THEN Err("Failed to read CSV file")
    ELSE LET m == collect_properties_map(args, csv.data, hashmap_new) IN
         IF ~m.ok THEN m
         ELSE IF parameters.tile_format # PBF THEN Err("source must be vector tiles")
         ELSE [ok |-> TRUE,
               runner |-> [args |-> args, properties_map |-> m.map,
                           tile_compression |-> parameters.tile_compression],
               parameters |-> [parameters EXCEPT !.tile_compression = Uncompressed]]

\* Runner::run, the closure, merging also when replace_properties is set
update_properties_always_merges(runner, prop) ==
    IF runner.args.id_field_tiles \in DOMAIN prop
    THEN LET id == prop[runner.args.id_field_tiles] IN
         IF to_string(id) \in DOMAIN runner.properties_map
         THEN Some(properties_update(prop, runner.properties_map[to_string(id)]))
         ELSE IF runner.args.remove_non_matching THEN None ELSE Some(prop)
    ELSE Some(prop)

\* Runner::run, the closure, removing also the features without the id field
update_properties_removes_without_id(runner, prop) ==
    IF runner.args.id_field_tiles \in DOMAIN prop
    THEN LET id == prop[runner.args.id_field_tiles] IN
         IF to_string(id) \in DOMAIN runner.properties_map
         THEN LET new_prop == runner.properties_map[to_string(id)] IN
              IF runner.args.replace_properties THEN Some(new_prop)
              ELSE Some(properties_update(prop, new_prop))
         ELSE IF runner.args.remove_non_matching THEN None ELSE Some(prop)
    ELSE IF runner.args.remove_non_matching THEN None ELSE Some(prop)

\* Runner::run, the closure given to filter_map_properties
update_properties(runner, prop) ==
    IF runner.args.id_field_tiles \in DOMAIN prop
    THEN LET id == prop[runner.args.id_field_tiles] IN
         IF to_string(id) \in DOMAIN runner.properties_map
         THEN LET new_prop == runner.properties_map[to_string(id)] IN
              IF runner.args.replace_properties THEN Some(new_prop)
              ELSE Some(properties_update(prop, new_prop))
         ELSE IF runner.args.remove_non_matching THEN None ELSE Some(prop)
    ELSE Some(prop)

\* VectorTileLayer::filter_map_properties with that closure: a feature is
\* kept with the properties the closure returns, or left out
RECURSIVE filter_map_features(_, _)
filter_map_features(runner, features) ==
    IF features = <<>> THEN <<>>
    ELSE LET r == update_properties(runner, Head(features).properties)
             rest == filter_map_features(runner, Tail(features))
         IN IF r.some THEN <<[Head(features) EXCEPT !.properties = r.value]>> \o rest
            ELSE rest

filter_map_properties(runner, layer) ==
    [layer EXCEPT !.features = filter_map_features(runner, layer.features)]

\* Runner::run rewriting every layer
run_every_layer(runner, blob) ==
    LET data == decompress(blob, runner.tile_compression) IN
    IF ~data.ok THEN data
    ELSE LET tile == from_blob(data.blob) IN
         IF ~tile.ok THEN Err("Failed to create VectorTile from Blob")
         ELSE LET layers == [i \in 1..Len(tile.tile) |->
                                filter_map_properties(runner, tile.tile[i])]
              IN [ok |-> TRUE, value |-> Some(to_blob(layers).blob)]

\* Runner::run
run(runner, blob) ==
    LET data == decompress(blob, runner.tile_compression) IN
    IF ~data.ok THEN data
    ELSE LET tile == from_blob(data.blob) IN
         IF ~tile.ok THEN Err("Failed to create VectorTile from Blob")
         ELSE LET layer_name == runner.args.layer_name
                  layers == [i \in 1..Len(tile.tile) |->
                                IF layer_name.some /\ tile.tile[i].name # layer_name.value
                                THEN tile.tile[i]
                                ELSE filter_map_properties(runner, tile.tile[i])]
              IN [ok |-> TRUE, value |-> Some(to_blob(layers).blob)]

\* Operation::get_tile_data; source_tile is what source.get_tile_data returned
Operation_get_tile_data(operation, source_tile) ==
    IF ~source_tile.ok THEN source_tile
    ELSE IF source_tile.value.some THEN run(operation.runner, source_tile.value.value)
    ELSE [ok |-> TRUE, value |-> None]

\* the CSV rows
Berlin ==
    [id |-> GeoValue_UInt("1"), city_id |-> GeoValue_UInt("7"),
     name |-> GeoValue_String("Berlin")]

Kyiv ==
    [id |-> GeoValue_UInt("2"), city_id |-> GeoValue_UInt("8"),
     name |-> GeoValue_String("Kyiv")]

\* a later row with the ids of Berlin
Bern ==
    [id |-> GeoValue_UInt("1"), city_id |-> GeoValue_UInt("7"),
     name |-> GeoValue_String("Bern"), population |-> GeoValue_UInt("5")]

\* a row without the column city_id
Unnumbered == [id |-> GeoValue_UInt("3"), name |-> GeoValue_String("Plovdiv")]

CsvFiles == {<<Berlin, Kyiv>>, <<Berlin, Bern>>, <<Berlin, Unnumbered>>, <<>>}

\* a tile with two layers: in each a feature with the given id and a feature
\* whose id no CSV row has, and in the first a feature without id
SourceTile(id_a, id_b) ==
    << [name |-> "a",
        features |-> << [id |-> 1, properties |->
                            [id |-> id_a, name |-> GeoValue_String("old"),
                             kind |-> GeoValue_String("town")]],
                        [id |-> 2, properties |->
                            [id |-> GeoValue_UInt("9"), name |-> GeoValue_String("nine")]],
                        [id |-> 3, properties |-> [name |-> GeoValue_String("q")]] >>],
       [name |-> "b",
        features |-> << [id |-> 4, properties |->
                            [id |-> id_b, city_id |-> GeoValue_String("own")]],
                        [id |-> 5, properties |-> [id |-> GeoValue_UInt("9")]] >>] >>

SourceTiles ==
    {SourceTile(GeoValue_String("1"), GeoValue_UInt("2")),
     SourceTile(GeoValue_UInt("7"), GeoValue_String("8"))}

\* the arguments of the operation
OperationArgs ==
    [id_field_tiles : {"id"},
     id_field_data : {"id", "city_id"},
     layer_name : {None, Some("a"), Some("c")},
     replace_properties : BOOLEAN,
     remove_non_matching : BOOLEAN,
     include_id : BOOLEAN]

\* the parameters of the source
SourceParameters ==
    [tile_format : {PBF, PNG},
     tile_compression : TileCompression,
     bbox_pyramid : {get_bbox_pyramid(9)}]

OperationInputs ==
    [args : OperationArgs, data : CsvFiles, parameters : SourceParameters, tile : SourceTiles]

InitOperation ==
    /\ op_in \in OperationInputs
    /\ op = NoResult
    /\ op_out = NoResult
    /\ RestUnset
    /\ comp_in = NoResult
    /\ comp_out = NoResult
    /\ comp_again = NoResult
    /\ dropped = NoResult
    /\ file = FirstFile
    /\ tile_index_cache = with_maximum_size(CACHE_MAXIMUM_SIZE)
    /\ pc = "operation"
    /\ panic = ""
    /\ result = NoResult
    /\ reads = <<>>
    /\ bbox = NoBBox
    /\ block_coords = <<>>
    /\ block_chunks = <<>>
    /\ packed = NoPacking
    /\ chunks = <<>>
    /\ emitted = <<>>

\* Operation::build is called; csv_ok tells whether the CSV file can be read
Build(csv_ok) ==
    /\ pc = "operation"
    /\ op = NoResult
    /\ op' = [csv_ok |-> csv_ok,
              result |-> build(op_in.args,
                               IF csv_ok THEN [ok |-> TRUE, data |-> op_in.data]
                               ELSE Err("csv"),
                               op_in.parameters)]
    /\ UNCHANGED <<file, tile_index_cache, pc, panic, result, reads, op_in, op_out,
                   compVars, restVars, streamVars>>

\* the tile the source holds, in the compression its parameters report
source_blob == compress(to_blob(op_in.tile).blob, op_in.parameters.tile_compression).blob

\* Operation::get_tile_data is called on the built operation; source tells
\* what source.get_tile_data returns: the tile, no tile, or an error
OperationGetTileData(source) ==
    /\ pc = "operation"
    /\ op # NoResult
    /\ op.result.ok
    /\ op_out = NoResult
    /\ op_out' = [source |-> source,
                  result |-> Operation_get_tile_data(op.result,
                                 CASE source = "some" -> [ok |-> TRUE, value |-> Some(source_blob)]
                                   [] source = "none" -> [ok |-> TRUE, value |-> None]
                                   [] source = "err" -> Err("source"))]
    /\ UNCHANGED <<file, tile_index_cache, pc, panic, result, reads, op_in, op,
                   compVars, restVars, streamVars>>

NextOperation ==
    \/ \E csv_ok \in BOOLEAN : Build(csv_ok)
    \/ \E source \in {"some", "none", "err"} : OperationGetTileData(source)

SpecOperation == InitOperation /\ [][NextOperation]_vars

\* ------------------------------------------------------------------------
\* What the operation is to do, read off its inputs directly (not through
\* the properties map the operation built)
\* ------------------------------------------------------------------------
\* the CSV rows whose id_field_data value reads as key
RowsWithId(key) ==
    {i \in 1..Len(op_in.data) :
        /\ op_in.args.id_field_data \in DOMAIN op_in.data[i]
        /\ to_string(op_in.data[i][op_in.args.id_field_data]) = key}

\* the CSV row of a key: the last one in the file
CsvRow(key) == op_in.data[CHOOSE i \in RowsWithId(key) : \A j \in RowsWithId(key) : j <= i]

\* that row as the operation is to store it
StoredRow(key) ==
    IF op_in.args.include_id THEN CsvRow(key)
    ELSE [k \in DOMAIN CsvRow(key) \ {op_in.args.id_field_data} |-> CsvRow(key)[k]]

HasId(f) == op_in.args.id_field_tiles \in DOMAIN f.properties

IdOf(f) == to_string(f.properties[op_in.args.id_field_tiles])

Matched(f) == HasId(f) /\ RowsWithId(IdOf(f)) # {}

Unmatched(f) == HasId(f) /\ RowsWithId(IdOf(f)) = {}

\* the layer is one the operation is to rewrite
Rewritten(layer) ==
    ~op_in.args.layer_name.some \/ layer.name = op_in.args.layer_name.value

\* Operation::get_tile_data has been called and the source had the tile
Ran == op_out # NoResult /\ op_out.source = "some"

\* the tile returned, decoded as uncompressed PBF
OutTile == from_blob(op_out.result.value.value).tile

\* the features of a layer of the returned tile that have the given identity
OutFeatures(l, id) == {g \in Range(OutTile[l].features) : g.id = id}

\* the layers of the source tile the operation is to rewrite
RewrittenLayers == {l \in 1..Len(op_in.tile) : Rewritten(op_in.tile[l])}

\* C14: build fails unless the source's tile_format is PBF; the operation
\* built reports tile_compression Uncompressed with the tile_format and the
\* bbox_pyramid of the source, and a tile of the source, compressed as the
\* source's parameters say, is decoded and returned as an uncompressed tile.
C14_PbfOnlyAndUncompressedOutput ==
    /\ (op # NoResult /\ op_in.parameters.tile_format # PBF) => ~op.result.ok
    /\ (op # NoResult /\ op.result.ok) =>
          /\ op.result.parameters.tile_compression = Uncompressed
          /\ op.result.parameters.tile_format = op_in.parameters.tile_format
          /\ op.result.parameters.bbox_pyramid = op_in.parameters.bbox_pyramid
    /\ Ran =>
          /\ op_out.result.ok
          /\ op_out.result.value.some
          /\ from_blob(op_out.result.value.value).ok
          /\ [l \in 1..Len(OutTile) |-> OutTile[l].name]
                = [l \in 1..Len(op_in.tile) |-> op_in.tile[l].name]

\* a Gzip tile of the source returned by an operation reporting Uncompressed
C14_Witness ==
    /\ Ran
    /\ op_in.parameters.tile_compression = Gzip
    /\ op.result.parameters.tile_compression = Uncompressed
    /\ op_out.result.ok
    /\ Len(OutTile) = 2

\* C15: with a readable CSV file, build fails with "Key '<id_field_data>'
\* not found in CSV data" when a row lacks the column id_field_data;
\* otherwise the properties map of the operation built has one entry per
\* distinct id value of the rows.
C15_MissingCsvKeyFailsBuild ==
    (op # NoResult /\ op.csv_ok) =>
        LET key == op_in.args.id_field_data
            data == op_in.data
        IN IF \E i \in 1..Len(data) : key \notin DOMAIN data[i]
           THEN /\ ~op.result.ok
                /\ op.result.msg = "Key '" \o key \o "' not found in CSV data"
           ELSE /\ op.result.ok <=> op_in.parameters.tile_format = PBF
                /\ op.result.ok =>
                      /\ DOMAIN op.result.runner.properties_map
                            = {to_string(data[i][key]) : i \in 1..Len(data)}
                      /\ Cardinality(DOMAIN op.result.runner.properties_map)
                            = Cardinality({data[i][key] : i \in 1..Len(data)})

\* the build failed on the second row of a file whose first row has the column
C15_Witness ==
    /\ op # NoResult
    /\ op.csv_ok
    /\ ~op.result.ok
    /\ op.result.msg = "Key 'city_id' not found in CSV data"
    /\ Len(op_in.data) = 2
    /\ "city_id" \in DOMAIN op_in.data[1]
    /\ op_in.parameters.tile_format = PBF

\* C16: in a rewritten layer a feature whose id has a CSV row comes out
\* once, with exactly the stored row as its properties when
\* replace_properties is set, and otherwise with its own properties
\* overlaid by the stored row: every key of the row with the row's value,
\* every other key of the feature with the feature's value.
C16_ReplaceOrMerge ==
    Ran =>
        /\ op_out.result.ok
        /\ \A l \in RewrittenLayers : \A f \in Range(op_in.tile[l].features) :
              Matched(f) =>
                  LET row == StoredRow(IdOf(f)) IN
                  /\ Cardinality(OutFeatures(l, f.id)) = 1
                  /\ \A g \in OutFeatures(l, f.id) :
                        IF op_in.args.replace_properties
                        THEN g.properties = row
                        ELSE /\ DOMAIN g.properties = DOMAIN f.properties \cup DOMAIN row
                             /\ \A k \in DOMAIN row : g.properties[k] = row[k]
                             /\ \A k \in DOMAIN f.properties \ DOMAIN row :
                                   g.properties[k] = f.properties[k]

\* a merge in which the row and the feature collide on the key name
C16_Witness ==
    /\ Ran
    /\ op_out.result.ok
    /\ ~op_in.args.replace_properties
    /\ ~op_in.args.layer_name.some
    /\ \E g \in OutFeatures(1, 1) :
          /\ g.properties.name = GeoValue_String("Bern")
          /\ g.properties.kind = GeoValue_String("town")
          /\ "population" \in DOMAIN g.properties

C18_IncludeId ==
    LET key == op_in.args.id_field_data IN
    /\ (op # NoResult /\ op.result.ok /\ ~op_in.args.include_id) =>
          \A id \in DOMAIN op.result.runner.properties_map :
              key \notin DOMAIN op.result.runner.properties_map[id]
    /\ Ran =>
          \A l \in RewrittenLayers : \A f \in Range(op_in.tile[l].features) :
              Matched(f) =>
                  \A g \in OutFeatures(l, f.id) :
                      IF op_in.args.include_id
                      THEN /\ key \in DOMAIN g.properties
                           /\ g.properties[key] = CsvRow(IdOf(f))[key]
                      ELSE key \in DOMAIN g.properties =>
                              /\ key \in DOMAIN f.properties
                              /\ g.properties[key] = f.properties[key]

\* include_id is off and a merged feature still has the city_id it had
C18_Witness ==
    /\ Ran
    /\ op_out.result.ok
    /\ ~op_in.args.include_id
    /\ ~op_in.args.replace_properties
    /\ op_in.args.id_field_data = "city_id"
    /\ ~op_in.args.layer_name.some
    /\ \E g \in OutFeatures(2, 4) :
          /\ g.properties.city_id = GeoValue_String("own")
          /\ "name" \in DOMAIN g.properties

\* C19: with layer_name set, every layer of another name comes out as it
\* went in; the layers of that name, and every layer when layer_name is not
\* set, come out rewritten: the features whose id has no CSV row are left
\* out under remove_non_matching, the features whose id has a row carry the
\* row's values.
C19_OnlyNamedLayerRewritten ==
    Ran =>
        /\ op_out.result.ok
        /\ Len(OutTile) = Len(op_in.tile)
        /\ \A l \in 1..Len(op_in.tile) :
              IF l \notin RewrittenLayers
              THEN OutTile[l] = op_in.tile[l]
              ELSE /\ OutTile[l].name = op_in.tile[l].name
                   /\ {g.id : g \in Range(OutTile[l].features)}
                         = {f.id : f \in {f \in Range(op_in.tile[l].features) :
                                   ~(Unmatched(f) /\ op_in.args.remove_non_matching)}}
                   /\ \A f \in Range(op_in.tile[l].features) :
                         Matched(f) =>
                             \A g \in OutFeatures(l, f.id) :
                                 \A k \in DOMAIN StoredRow(IdOf(f)) :
                                     g.properties[k] = StoredRow(IdOf(f))[k]

\* layer "a" rewritten, layer "b" untouched although it has a feature with a
\* CSV row and one to remove
C19_Witness ==
    /\ Ran
    /\ op_out.result.ok
    /\ op_in.args.layer_name = Some("a")
    /\ op_in.args.remove_non_matching
    /\ OutTile[2] = op_in.tile[2]
    /\ OutTile[1] # op_in.tile[1]
    /\ \E f \in Range(op_in.tile[2].features) : Matched(f)
    /\ \E f \in Range(op_in.tile[2].features) : Unmatched(f)

\* ------------------------------------------------------------------------
\* What the specifications below leave untouched: the reader, the stream,
\* the compression calls and the operation
\* ------------------------------------------------------------------------
OldUnset ==
    /\ file = FirstFile
    /\ tile_index_cache = with_maximum_size(CACHE_MAXIMUM_SIZE)
    /\ panic = ""
    /\ result = NoResult
    /\ reads = <<>>
    /\ bbox = NoBBox
    /\ block_coords = <<>>
    /\ block_chunks = <<>>
    /\ packed = NoPacking
    /\ chunks = <<>>
    /\ emitted = <<>>
    /\ dropped = NoResult
    /\ comp_in = NoResult
    /\ comp_out = NoResult
    /\ comp_again = NoResult
    /\ comp_trip = NoResult
    /\ op_in = NoResult
    /\ op = NoResult
    /\ op_out = NoResult

oldVars == <<file, tile_index_cache, panic, result, reads, streamVars, compVars, opVars>>

\* ------------------------------------------------------------------------
\* TileConverterConfig: the choice of the tile converter
\* ------------------------------------------------------------------------
JPG == "JPG"

WEBP == "WEBP"

PBFBrotli == "PBFBrotli"

PBFGzip == "PBFGzip"

TileFormat == {PNG, JPG, WEBP, PBF, PBFBrotli, PBFGzip}

\* the converters calc_tile_converter can return, by name
tile_same == "tile_same"

tile_unbrotli_brotli == "tile_unbrotli_brotli"

tile_unbrotli_gzip == "tile_unbrotli_gzip"

tile_ungzip_brotli == "tile_ungzip_brotli"

tile_ungzip_gzip == "tile_ungzip_gzip"

\* the outcome of calc_tile_converter: the converter returned and
\* self.tile_format after the call, or a panic
Chosen(converter, tile_format) ==
    [kind |-> "ok", converter |-> converter, tile_format |-> tile_format,
     converted |-> FALSE, tile |-> <<>>]

ConverterPanic == [kind |-> "panic"]

\* TileConverterConfig::calc_tile_converter
calc_tile_converter(tile_format, force_recompress, src_tile_format) ==
    IF ~tile_format.some
    THEN Chosen(tile_same, Some(src_tile_format))
    ELSE
    LET dst_tile_format == tile_format.value IN
    IF src_tile_format = dst_tile_format
    THEN Chosen(tile_same, tile_format)
    ELSE
    CASE src_tile_format = PNG /\ dst_tile_format = PNG -> Chosen(tile_same, tile_format)
      [] src_tile_format = PNG /\ dst_tile_format # PNG -> ConverterPanic
      [] src_tile_format = JPG /\ dst_tile_format = JPG -> Chosen(tile_same, tile_format)
      [] src_tile_format = JPG /\ dst_tile_format # JPG -> ConverterPanic
      [] src_tile_format = WEBP /\ dst_tile_format = WEBP -> Chosen(tile_same, tile_format)
      [] src_tile_format = WEBP /\ dst_tile_format # WEBP -> ConverterPanic
      [] src_tile_format = PBF /\ dst_tile_format = PBF -> Chosen(tile_same, tile_format)
      [] src_tile_format = PBF /\ dst_tile_format = PBFBrotli ->
            Chosen("compress_brotli", tile_format)
      [] src_tile_format = PBF /\ dst_tile_format = PBFGzip ->
            Chosen("compress_gzip", tile_format)
      [] src_tile_format = PBF /\ dst_tile_format \notin {PBF, PBFBrotli, PBFGzip} ->
            ConverterPanic
      [] src_tile_format = PBFBrotli /\ dst_tile_format = PBF ->
            Chosen("decompress_brotli", tile_format)
      [] src_tile_format = PBFBrotli /\ dst_tile_format = PBFBrotli ->
            IF force_recompress
            THEN Chosen(tile_unbrotli_brotli, tile_format)
            ELSE Chosen(tile_same, tile_format)
      [] src_tile_format = PBFBrotli /\ dst_tile_format = PBFGzip ->
            Chosen(tile_unbrotli_gzip, tile_format)
      [] src_tile_format = PBFBrotli /\ dst_tile_format \notin {PBF, PBFBrotli, PBFGzip} ->
            ConverterPanic
      [] src_tile_format = PBFGzip /\ dst_tile_format = PBF ->
            Chosen("decompress_gzip", tile_format)
      [] src_tile_format = PBFGzip /\ dst_tile_format = PBFBrotli ->
            Chosen(tile_ungzip_brotli, tile_format)
      [] src_tile_format = PBFGzip /\ dst_tile_format = PBFGzip ->
            IF force_recompress
            THEN Chosen(tile_ungzip_gzip, tile_format)
            ELSE Chosen(tile_same, tile_format)
      [] src_tile_format = PBFGzip /\ dst_tile_format \notin {PBF, PBFBrotli, PBFGzip} ->
            ConverterPanic

\* a converter applied to a tile (the tiles given to it are valid streams of
\* the source's format)
apply_converter(converter, tile) ==
    CASE converter = tile_same -> tile
      [] converter = "compress_brotli" -> compress_brotli(tile).blob
      [] converter = "compress_gzip" -> compress_gzip(tile).blob
      [] converter = "decompress_brotli" -> decompress_brotli(tile).blob
      [] converter = "decompress_gzip" -> decompress_gzip(tile).blob
      [] converter = tile_unbrotli_brotli -> compress_brotli(decompress_brotli(tile).blob).blob
      [] converter = tile_unbrotli_gzip -> compress_gzip(decompress_brotli(tile).blob).blob
      [] converter = tile_ungzip_brotli -> compress_brotli(decompress_gzip(tile).blob).blob
      [] converter = tile_ungzip_gzip -> compress_gzip(decompress_gzip(tile).blob).blob

\* the tiles of a source of the given format: a payload as that format
\* stores it; a Brotli tile may come from either encoder
SourceTilesOf(src_tile_format) ==
    CASE src_tile_format = PBFGzip -> {compress_gzip(p).blob : p \in Payloads}
      [] src_tile_format = PBFBrotli ->
            {compress_brotli(p).blob : p \in Payloads}
                \cup {compress_brotli_fast(p).blob : p \in Payloads}
      [] OTHER -> Payloads

\* a configuration from from_options (tile_format, force_recompress), the
\* tile format of the reader it is finalized with, and a tile of the reader
ConverterInputs ==
    {[tile_format |-> tf, force_recompress |-> fr, src_tile_format |-> src, tile |-> t] :
        tf \in {None} \cup {Some(x) : x \in TileFormat}, fr \in BOOLEAN,
        src \in TileFormat, t \in Payloads \cup SourceTilesOf(PBFGzip) \cup SourceTilesOf(PBFBrotli)}

InitConverter ==
    /\ pc = "converter"
    /\ conv_in \in {i \in ConverterInputs : i.tile \in SourceTilesOf(i.src_tile_format)}
    /\ conv_out = NoResult
    /\ OldUnset
    /\ OpenUnset
    /\ MutexUnset
    /\ ServerUnset

\* finalize_with_parameters: the converter is chosen
FinalizeWithParameters ==
    /\ pc = "converter"
    /\ conv_out = NoResult
    /\ conv_out' = calc_tile_converter(conv_in.tile_format, conv_in.force_recompress,
                                       conv_in.src_tile_format)
    /\ pc' = IF conv_out'.kind = "panic" THEN "panicked" ELSE pc
    /\ UNCHANGED <<conv_in, oldVars, openVars, mutexVars, serverVars>>

\* get_tile_converter()(tile): the chosen converter is applied to a tile
ConvertTile ==
    /\ pc = "converter"
    /\ conv_out # NoResult
    /\ ~conv_out.converted
    /\ conv_out' = [conv_out EXCEPT !.converted = TRUE,
                                    !.tile = apply_converter(conv_out.converter, conv_in.tile)]
    /\ UNCHANGED <<pc, conv_in, oldVars, openVars, mutexVars, serverVars>>

NextConverter == FinalizeWithParameters \/ ConvertTile

SpecConverter == InitConverter /\ [][NextConverter]_vars

\* C27: when force_recompress is true and the source and the destination
\* format are the same compressed format (PBFGzip or PBFBrotli), the
\* converter chosen decompresses the tile and compresses it again; the
\* identity is chosen for such a pair only when force_recompress is false
C27_ForceRecompress ==
    (/\ conv_out # NoResult
     /\ conv_in.tile_format = Some(conv_in.src_tile_format)
     /\ conv_in.src_tile_format \in {PBFGzip, PBFBrotli}) =>
        /\ conv_out.kind = "ok"
        /\ conv_in.force_recompress =>
              conv_out.converter =
                 (IF conv_in.src_tile_format = PBFGzip THEN tile_ungzip_gzip
                                                       ELSE tile_unbrotli_brotli)
        /\ conv_out.converter = tile_same => ~conv_in.force_recompress

\* ------------------------------------------------------------------------
\* VersaTilesReader::open_reader
\* ------------------------------------------------------------------------
\* where the meta data and the block index lie in the files opened
MetaOffset == 66

BlocksRange == ByteRange(300, 100)

\* a blob that is a valid stream of no codec
BrokenBlob == <<7>>

\* the meta data as the file stores it: none, a payload compressed with the
\* header's codec, or broken bytes
MetaBytes(compression) ==
    {<<>>, BrokenBlob} \cup {compress(p, compression).blob : p \in Payloads}

\* the files given to open_reader: the header fields open_reader uses, the
\* bytes at meta_range, and which of the steps fail (a read of the
\* DataReader, the parsing of the block index)
OpenInputs ==
    {[header |-> [tile_format |-> tf, compression |-> c,
                  meta_range |-> ByteRange(MetaOffset, Len(m)), blocks_range |-> BlocksRange],
      meta_bytes |-> m, header_ok |-> hk, meta_ok |-> mk, blocks_ok |-> bk, index_ok |-> ik] :
        tf \in {PBF, PNG}, c \in TileCompression,
        m \in UNION {MetaBytes(k) : k \in TileCompression},
        hk \in BOOLEAN, mk \in BOOLEAN, bk \in BOOLEAN, ik \in BOOLEAN}

\* the reads open_reader issues
HeaderRead == [step |-> "header"]

RangeRead(range) == [step |-> "range", range |-> range]

OpenErr(context, issued) == [ok |-> FALSE, context |-> context, reads |-> issued, reader |-> None]

\* open_reader reading the meta range whatever its length
open_reader_reads_empty_meta(in) ==
    LET header == in.header
        r1 == <<HeaderRead>>
        r2 == Append(r1, RangeRead(header.meta_range))
        r3 == Append(r2, RangeRead(header.blocks_range))
        m == decompress(in.meta_bytes, header.compression)
    IN
    IF ~in.header_ok THEN OpenErr("reading the header", r1)
    ELSE IF ~in.meta_ok THEN OpenErr("reading the meta data", r2)
    ELSE IF ~m.ok THEN OpenErr("decompressing the meta data", r2)
    ELSE IF ~in.blocks_ok THEN OpenErr("reading the block index", r3)
    ELSE IF ~in.index_ok THEN OpenErr("decompressing the block index", r3)
    ELSE [ok |-> TRUE, context |-> "", reads |-> r3,
          reader |-> Some([meta |-> Some(m.blob),
                           parameters |-> [tile_format |-> header.tile_format,
                                           tile_compression |-> header.compression]])]

\* VersaTilesReader::open_reader
open_reader(in) ==
    LET header == in.header
        r1 == <<HeaderRead>>
        has_meta == header.meta_range.length > 0
        r2 == IF has_meta THEN Append(r1, RangeRead(header.meta_range)) ELSE r1
        r3 == Append(r2, RangeRead(header.blocks_range))
        m == decompress(in.meta_bytes, header.compression)
    IN
    IF ~in.header_ok THEN OpenErr("reading the header", r1)
    ELSE IF has_meta /\ ~in.meta_ok THEN OpenErr("reading the meta data", r2)
    ELSE IF has_meta /\ ~m.ok THEN OpenErr("decompressing the meta data", r2)
    ELSE IF ~in.blocks_ok THEN OpenErr("reading the block index", r3)
    ELSE IF ~in.index_ok THEN OpenErr("decompressing the block index", r3)
    ELSE [ok |-> TRUE, context |-> "", reads |-> r3,
          reader |-> Some([meta |-> IF has_meta THEN Some(m.blob) ELSE None,
                           parameters |-> [tile_format |-> header.tile_format,
                                           tile_compression |-> header.compression]])]

InitOpen ==
    /\ pc = "open"
    /\ open_in \in {i \in OpenInputs : i.meta_bytes \in MetaBytes(i.header.compression)}
    /\ open_out = NoResult
    /\ OldUnset
    /\ MutexUnset
    /\ ConvUnset
    /\ ServerUnset

\* a call of open_reader(reader)
OpenReader ==
    /\ pc = "open"
    /\ open_out = NoResult
    /\ open_out' = [call |-> open_reader(open_in), got |-> FALSE, meta |-> None]
    /\ UNCHANGED <<pc, open_in, oldVars, mutexVars, convVars, serverVars>>

\* a call of get_meta() on the reader open_reader returned
GetMeta ==
    /\ pc = "open"
    /\ open_out # NoResult
    /\ open_out.call.ok
    /\ ~open_out.got
    /\ open_out' = [open_out EXCEPT !.got = TRUE, !.meta = open_out.call.reader.value.meta]
    /\ UNCHANGED <<pc, open_in, oldVars, mutexVars, convVars, serverVars>>

NextOpen == OpenReader \/ GetMeta

SpecOpen == InitOpen /\ [][NextOpen]_vars

\* the reads of a successful open_reader call on the file, in order
ReadsInOrder ==
    LET h == open_in.header IN
    IF h.meta_range.length > 0
    THEN <<HeaderRead, RangeRead(h.meta_range), RangeRead(h.blocks_range)>>
    ELSE <<HeaderRead, RangeRead(h.blocks_range)>>

\* how many reads the call gets to: up to the first step that fails
ReadsUntilFailure ==
    LET has_meta == open_in.header.meta_range.length > 0
        meta_broken == ~decompress(open_in.meta_bytes, open_in.header.compression).ok
    IN
    IF ~open_in.header_ok THEN 1
    ELSE IF has_meta /\ (~open_in.meta_ok \/ meta_broken) THEN 2
    ELSE Len(ReadsInOrder)

OpenFails ==
    \/ ~open_in.header_ok
    \/ /\ open_in.header.meta_range.length > 0
       /\ \/ ~open_in.meta_ok
          \/ ~decompress(open_in.meta_bytes, open_in.header.compression).ok
    \/ ~open_in.blocks_ok
    \/ ~open_in.index_ok

\* C24: open_reader reads the header, then the meta range (only if
\* meta_range.length > 0), then blocks_range; if a step fails it returns an
\* error, issues no later read and produces no reader; on success get_meta()
\* is None exactly when meta_range.length = 0, and tile_format and
\* tile_compression are the header's
C24_OpenOrder ==
    open_out # NoResult =>
        LET call == open_out.call IN
        /\ call.reads = SubSeq(ReadsInOrder, 1, ReadsUntilFailure)
        /\ call.ok = ~OpenFails
        /\ ~call.ok => ~call.reader.some
        /\ call.ok =>
              /\ call.reader.some
              /\ call.reader.value.parameters.tile_format = open_in.header.tile_format
              /\ call.reader.value.parameters.tile_compression = open_in.header.compression
        /\ open_out.got =>
              /\ ~open_out.meta.some <=> open_in.header.meta_range.length = 0
              /\ open_out.meta.some =>
                    compress(open_out.meta.value, open_in.header.compression).blob
                        = open_in.meta_bytes

\* a file without meta data opened with success (two reads, get_meta() is
\* None)
C24_Witness ==
    /\ open_out # NoResult
    /\ open_out.got
    /\ open_in.header.meta_range.length = 0
    /\ Len(open_out.call.reads) = 2
    /\ ~open_out.meta.some

\* ------------------------------------------------------------------------
\* TileServer: registering sources and routing requests
\* ------------------------------------------------------------------------
\* the most sources registered
MaxSources == 2

\* the longest url_prefix given to add_source
MaxUrlLen == 3

\* the longest request path, after its leading "/"
MaxPathLen == 4

\* strings are sequences of characters
Chars == {"/", "a"}

\* str::starts_with
starts_with(str, prefix) ==
    Len(prefix) <= Len(str) /\ SubSeq(str, 1, Len(prefix)) = prefix

\* str::ends_with for one character
ends_with_char(str, c) == str # <<>> /\ str[Len(str)] = c

\* prefix.matches('/').count()
count_slashes(str) == Cardinality({i \in 1..Len(str) : str[i] = "/"})

\* str::split('/')
RECURSIVE split_slash(_)
split_slash(str) ==
    IF str = <<>> THEN << <<>> >>
    ELSE LET init == split_slash(SubSeq(str, 1, Len(str) - 1))
             c == str[Len(str)]
         IN  IF c = "/" THEN Append(init, <<>>)
             ELSE [init EXCEPT ![Len(init)] = Append(@, c)]

\* the prefix add_source registers for url_prefix
normalized(url_prefix) ==
    LET p1 == IF ~starts_with(url_prefix, <<"/">>) THEN <<"/">> \o url_prefix ELSE url_prefix
    IN  IF ~ends_with_char(p1, "/") THEN p1 \o <<"/">> ELSE p1

\* add_source without the test against the prefixes registered before
add_source_unchecked(srcs, url_prefix, source) ==
    [panicked |-> FALSE,
     sources |-> Append(srcs, [prefix |-> normalized(url_prefix), source |-> source])]

\* TileServer::add_source
add_source(srcs, url_prefix, source) ==
    LET prefix == normalized(url_prefix) IN
    IF \E i \in 1..Len(srcs) :
          starts_with(srcs[i].prefix, prefix) \/ starts_with(prefix, srcs[i].prefix)
    THEN [panicked |-> TRUE, sources |-> srcs]
    ELSE [panicked |-> FALSE, sources |-> Append(srcs, [prefix |-> prefix, source |-> source])]

\* start: the sources are popped off self.sources into the list the
\* server routes with, each with the number of its slashes
RECURSIVE popped(_)
popped(srcs) ==
    IF srcs = <<>> THEN <<>>
    ELSE LET last == srcs[Len(srcs)] IN
         <<[prefix |-> last.prefix, skip |-> count_slashes(last.prefix),
            source |-> last.source]>> \o popped(SubSeq(srcs, 1, Len(srcs) - 1))

\* arc_sources.iter().find(|(prefix, _, _)| path.starts_with(prefix))
find_source(srcs, path) ==
    LET hits == {i \in 1..Len(srcs) : starts_with(path, srcs[i].prefix)} IN
    IF hits = {} THEN None ELSE Some(srcs[CHOOSE i \in hits : \A j \in hits : i <= j])

\* the request handler of start
serve(srcs, static, path) ==
    LET source_option == find_source(srcs, path)
        sub_path == split_slash(path)
    IN
    IF source_option.some
    THEN LET skip == source_option.value.skip IN
         [status |-> 200, source |-> source_option.value.source,
          sub_path |-> IF skip < Len(sub_path) THEN SubSeq(sub_path, skip + 1, Len(sub_path))
                       ELSE <<>>,
          path |-> path]
    ELSE IF static # NoResult
    THEN [status |-> 200, source |-> static.source, sub_path |-> Tail(sub_path), path |-> path]
    ELSE [status |-> 404, source |-> <<"none">>, sub_path |-> <<>>, path |-> path]

UrlPrefixes == SeqsUpTo(Chars, MaxUrlLen)

\* request paths start with "/"
Paths == {<<"/">> \o t : t \in SeqsUpTo(Chars, MaxPathLen)}

\* the static source
StaticSource == [source |-> <<"static">>]

InitServer ==
    /\ pc = "server"
    /\ ServerUnset
    /\ OldUnset
    /\ OpenUnset
    /\ MutexUnset
    /\ ConvUnset

\* a call of add_source(url_prefix, source); the sources are named by the
\* url_prefix they were given
AddSource(url_prefix) ==
    /\ pc = "server"
    /\ Len(sources) < MaxSources
    /\ LET r == add_source(sources, url_prefix, url_prefix) IN
       /\ sources' = r.sources
       /\ pc' = IF r.panicked THEN "panicked" ELSE pc
       /\ response' = IF r.panicked THEN [status |-> 0, source |-> <<"panic">>, sub_path |-> <<>>,
                                          path |-> normalized(url_prefix)]
                      ELSE response
    /\ UNCHANGED <<static_source, arc_sources, oldVars, openVars, mutexVars, convVars>>

\* a call of set_static(source)
SetStatic ==
    /\ pc = "server"
    /\ static_source = NoResult
    /\ static_source' = StaticSource
    /\ UNCHANGED <<pc, sources, arc_sources, response, oldVars, openVars, mutexVars, convVars>>

\* a call of start(): the server begins to listen
Start ==
    /\ pc = "server"
    /\ pc' = "serving"
    /\ arc_sources' = popped(sources)
    /\ sources' = <<>>
    /\ UNCHANGED <<static_source, response, oldVars, openVars, mutexVars, convVars>>

\* a request is answered
Request(path) ==
    /\ pc = "serving"
    /\ response' = serve(arc_sources, static_source, path)
    /\ UNCHANGED <<pc, sources, static_source, arc_sources, oldVars, openVars, mutexVars,
                   convVars>>

NextServer ==
    \/ \E url_prefix \in UrlPrefixes : AddSource(url_prefix)
    \/ SetStatic
    \/ Start
    \/ \E path \in Paths : Request(path)

SpecServer == InitServer /\ [][NextServer]_vars

\* the prefixes registered, before and after start
Registered == {sources[i].prefix : i \in 1..Len(sources)}
                  \cup {arc_sources[i].prefix : i \in 1..Len(arc_sources)}

\* the sources whose prefix a path starts with
Matching(path) == {i \in 1..Len(arc_sources) : starts_with(path, arc_sources[i].prefix)}

\* C30: after add_source calls that did not panic, every registered prefix
\* starts and ends with "/" and none is a prefix of another; so at most one
\* source matches a request path and it is the one that answers, whatever
\* the order of registration; a path that matches no source is answered by
\* the static source if one is set and with 404 otherwise
C30_PrefixFreeRouting ==
    /\ \A p \in Registered : starts_with(p, <<"/">>) /\ ends_with_char(p, "/")
    /\ \A p, q \in Registered : starts_with(p, q) => p = q
    /\ Len(sources) = Cardinality({sources[i].prefix : i \in 1..Len(sources)})
    /\ (pc = "serving" /\ response # NoResult) =>
          LET hits == Matching(response.path) IN
          /\ Cardinality(hits) <= 1
          /\ \A i \in hits : response.status = 200
                             /\ response.source = arc_sources[i].source
          /\ hits = {} =>
                IF static_source # NoResult
                THEN response.status = 200 /\ response.source = StaticSource.source
                ELSE response.status = 404

\* two sources, the one registered first answers a request although the
\* server looks at it last
C30_Witness ==
    /\ pc = "serving"
    /\ Len(arc_sources) = 2
    /\ response # NoResult
    /\ response.status = 200
    /\ response.source = arc_sources[2].source
    /\ static_source # NoResult

\* ------------------------------------------------------------------------
\* get_bbox_tile_stream: the futures of the stream and the mutex around the
\* reader. One future per block coordinate is run by the call itself
\* (stream.collect().await), then one future per chunk is run as the
\* consumer polls the returned stream; `then` makes the next future only
\* when the one before has resolved
\* ------------------------------------------------------------------------
\* the most block coordinates of a bbox
MaxBlocks == 3

\* the most chunks of a stream
MaxStreamChunks == 3

\* self_mutex.lock().await resolving without taking the mutex
lock_not_taken(m, id) == m

\* self_mutex.lock().await resolves: the future holds the guard
lock(m, id) == m \cup {id}

\* the guard `myself` goes out of scope, or is dropped with its future
drop_guard(m, id) == m \ {id}

\* a read of the DataReader by future id
ReadBy(id, what) == [by |-> id, what |-> what]

InitMutex ==
    /\ pc = "mutex"
    /\ mutex = {}
    /\ in_flight = {}
    /\ \E nb \in 0..MaxBlocks :
          fut = [phase |-> "blocks", blocks_left |-> nb, chunks_left |-> 0, id |-> 0,
                 at |-> "none"]
    /\ OldUnset
    /\ OpenUnset
    /\ ConvUnset
    /\ ServerUnset

MutexFrame == UNCHANGED <<pc, oldVars, openVars, convVars, serverVars>>

\* `then` calls its closure for the next block coordinate or chunk
CreateFuture ==
    /\ pc = "mutex"
    /\ fut.at = "none"
    /\ \/ fut.phase = "blocks" /\ fut.blocks_left > 0
       \/ fut.phase = "chunks" /\ fut.chunks_left > 0
    /\ fut' = [fut EXCEPT !.at = "created", !.id = fut.id + 1]
    /\ UNCHANGED <<mutex, in_flight>>
    /\ MutexFrame

\* let mut myself = self_mutex.lock().await
Lock ==
    /\ pc = "mutex"
    /\ fut.at = "created"
    /\ mutex = {}
    /\ mutex' = lock(mutex, fut.id)
    /\ fut' = [fut EXCEPT !.at = "locked"]
    /\ UNCHANGED in_flight
    /\ MutexFrame

\* a block future finds the tile index in the cache: no read
CacheHit ==
    /\ pc = "mutex"
    /\ fut.at = "locked"
    /\ fut.phase = "blocks"
    /\ fut' = [fut EXCEPT !.at = "finishing"]
    /\ UNCHANGED <<mutex, in_flight>>
    /\ MutexFrame

\* read_range is called: the tile index of the block (cache miss), or the
\* range of the chunk
BeginRead ==
    /\ pc = "mutex"
    /\ fut.at = "locked"
    /\ in_flight' = in_flight \cup
          {ReadBy(fut.id, IF fut.phase = "blocks" THEN "tile index" ELSE "chunk")}
    /\ fut' = [fut EXCEPT !.at = "reading"]
    /\ UNCHANGED mutex
    /\ MutexFrame

\* the read resolves; a failed read panics the future (unwrap), whose guard
\* is dropped as the panic unwinds
EndRead(read_ok) ==
    /\ pc = "mutex"
    /\ fut.at = "reading"
    /\ in_flight' = {r \in in_flight : r.by # fut.id}
    /\ IF read_ok
       THEN /\ fut' = [fut EXCEPT !.at = "finishing"]
            /\ UNCHANGED mutex
       ELSE /\ fut' = [fut EXCEPT !.at = "none", !.phase = "panicked"]
            /\ mutex' = drop_guard(mutex, fut.id)
    /\ MutexFrame

\* panic!("block does not exist") in a block future, under the mutex
BlockMissing ==
    /\ pc = "mutex"
    /\ fut.at = "locked"
    /\ fut.phase = "blocks"
    /\ fut' = [fut EXCEPT !.at = "none", !.phase = "panicked"]
    /\ mutex' = drop_guard(mutex, fut.id)
    /\ UNCHANGED in_flight
    /\ MutexFrame

\* the future resolves (the chunks of the block, or the tiles of the chunk)
\* and its guard goes out of scope; after the last block the chunks are
\* known and the stream is returned
Resolve(nc) ==
    /\ pc = "mutex"
    /\ fut.at = "finishing"
    /\ mutex' = drop_guard(mutex, fut.id)
    /\ IF fut.phase = "blocks"
       THEN IF fut.blocks_left = 1
            THEN fut' = [fut EXCEPT !.at = "none", !.blocks_left = 0, !.phase = "chunks",
                                    !.chunks_left = nc]
            ELSE /\ nc = 0
                 /\ fut' = [fut EXCEPT !.at = "none", !.blocks_left = fut.blocks_left - 1]
       ELSE /\ nc = 0
            /\ fut' = [fut EXCEPT !.at = "none", !.chunks_left = fut.chunks_left - 1]
    /\ UNCHANGED in_flight
    /\ MutexFrame

\* no item is left: the call returns an empty stream, or the stream ends
Exhausted ==
    /\ pc = "mutex"
    /\ fut.at = "none"
    /\ \/ fut.phase = "blocks" /\ fut.blocks_left = 0
       \/ fut.phase = "chunks" /\ fut.chunks_left = 0
    /\ fut' = [fut EXCEPT !.phase = "done"]
    /\ UNCHANGED <<mutex, in_flight>>
    /\ MutexFrame

\* the caller drops the call or the stream: the future being polled is
\* dropped with its guard and with the read it awaits
DropFuture ==
    /\ pc = "mutex"
    /\ fut.phase \in {"blocks", "chunks"}
    /\ fut' = [fut EXCEPT !.at = "none", !.phase = "dropped"]
    /\ mutex' = drop_guard(mutex, fut.id)
    /\ in_flight' = {r \in in_flight : r.by # fut.id}
    /\ MutexFrame

NextMutex ==
    \/ CreateFuture
    \/ Lock
    \/ CacheHit
    \/ BeginRead
    \/ \E read_ok \in BOOLEAN : EndRead(read_ok)
    \/ BlockMissing
    \/ \E nc \in 0..MaxStreamChunks : Resolve(nc)
    \/ Exhausted
    \/ DropFuture

SpecMutex == InitMutex /\ [][NextMutex]_vars

\* C26: while a bbox stream is produced and consumed at most one read of
\* the DataReader (of a tile index or of a chunk) is in flight; a future
\* touches the reader and its cache only while it holds the mutex, which
\* has one holder at most; the mutex is released whenever no future is
\* running (a future resolved, panicked or was dropped), so the next
\* lock() finds it free and the stream does not deadlock on it
C26_OneReadInFlight ==
    /\ Cardinality(in_flight) <= 1
    /\ Cardinality(mutex) <= 1
    /\ \A r \in in_flight : r.by \in mutex /\ r.by = fut.id /\ fut.at = "reading"
    /\ fut.at \in {"locked", "reading", "finishing"} => mutex = {fut.id}
    /\ fut.at \in {"none", "created"} => mutex = {}

\* the last chunk read of a stream is in flight, under the mutex, after
\* the futures before it have released it
C26_Witness ==
    /\ fut.phase = "chunks"
    /\ fut.at = "reading"
    /\ fut.id = MaxBlocks + MaxStreamChunks
    /\ in_flight = {ReadBy(fut.id, "chunk")}
    /\ mutex = {fut.id}

====
